---- MODULE Spec2Model ----
(***************************************************************************)
(* Model of the sliding-window rate limiter (app/middleware/rate_limiter)  *)
(* and of the item read-through cache (app/api/v1/endpoints/items,         *)
(* app/core/cache) over one shared Redis store.                            *)
(***************************************************************************)
EXTENDS Integers, Sequences, FiniteSets, TLC

\* ------------------------------------------------------------------ bounds
\* settings.RATE_LIMIT_REQUESTS / RATE_LIMIT_WINDOW as configured for the
\* model (the tests configure 5 and 10; the defaults are 100 and 60).
RATE_LIMIT_REQUESTS == 2
RATE_LIMIT_WINDOW == 3
\* The store clock runs over 0..MaxTime seconds.
MaxTime == 3
\* Number of request tasks that may be in flight at once (SpecConc).
MaxInFlight == 2
\* Number of store operations that raise a store error in one run.
MaxErrors == 1
\* Item ids the database issues: 1..MaxItems.
MaxItems == 1
\* The clock of the item cache runs over 0..MaxClockSteps steps of half a
\* time-to-live.
MaxClockSteps == 2
\* X-Forwarded-For values of up to MaxHeaderLen characters (SpecKeys).
MaxHeaderLen == 3
\* Item ids whose cache keys are compared: 0..MaxKeyId.
MaxKeyId == 120
\* Users stored before the first register call: at most MaxUsers.
MaxUsers == 2

\* ------------------------------------------------------------------ values
NoExpiry == -1
NoTime == -1

Min(S) == CHOOSE x \in S : \A y \in S : x <= y

\* str(n) for an integer: its decimal digits, most significant first.
DigitChars == <<"0", "1", "2", "3", "4", "5", "6", "7", "8", "9">>
RECURSIVE Digits(_)
Digits(n) ==
    IF n < 10 THEN <<DigitChars[n + 1]>>
    ELSE Digits(n \div 10) \o <<DigitChars[(n % 10) + 1]>>
str(n) == IF n < 0 THEN <<"-">> \o Digits(-n) ELSE Digits(n)

\* int(s) for a decimal digit string as produced by str.
DigitValue(ch) == CHOOSE d \in 0..9 : DigitChars[d + 1] = ch
RECURSIVE DigitsValue(_)
DigitsValue(s) ==
    IF Len(s) = 0 THEN 0
    ELSE 10 * DigitsValue(SubSeq(s, 1, Len(s) - 1)) + DigitValue(s[Len(s)])
int(s) == IF Len(s) > 0 /\ s[1] = "-" THEN -DigitsValue(Tail(s)) ELSE DigitsValue(s)

\* ------------------------------------------------------------------ requests
\* A header value or peer address is a sequence of characters.
NoHeader == [present |-> FALSE, value |-> <<>>]
Header(v) == [present |-> TRUE, value |-> v]

ForwardedValues ==
    { <<>>, <<"a">>, <<"b">>, <<" ", "a", " ", ",", "b">> }
PeerHosts == { <<"a">>, <<"b">> }
Requests ==
    [forwarded_for : {NoHeader} \cup {Header(v) : v \in ForwardedValues},
     host : PeerHosts]

\* Every X-Forwarded-For value over letters, space and comma, and the
\* requests that carry one of them or none.
HeaderChars == {"a", "b", " ", ","}
HeaderValues == UNION { [1..n -> HeaderChars] : n \in 0..MaxHeaderLen }
KeyRequests ==
    [forwarded_for : {NoHeader} \cup {Header(v) : v \in HeaderValues},
     host : PeerHosts]
NoRequest == [forwarded_for |-> NoHeader, host |-> <<>>]

\* s.split(",")[0]: the characters before the first comma.
RECURSIVE split_first(_)
split_first(s) ==
    IF Len(s) = 0 \/ s[1] = "," THEN <<>>
    ELSE <<s[1]>> \o split_first(Tail(s))

\* s.strip(): leading and trailing whitespace removed.
RECURSIVE lstrip(_)
lstrip(s) == IF Len(s) > 0 /\ s[1] = " " THEN lstrip(Tail(s)) ELSE s
RECURSIVE rstrip(_)
rstrip(s) ==
    IF Len(s) > 0 /\ s[Len(s)] = " " THEN rstrip(SubSeq(s, 1, Len(s) - 1)) ELSE s
strip(s) == rstrip(lstrip(s))

\* Variant: the entry is used as it stands, whitespace included.
get_client_identifier_unstripped(request) ==
    LET forwarded_for == request.forwarded_for
        client_ip ==
            IF forwarded_for.present /\ Len(forwarded_for.value) > 0
            THEN split_first(forwarded_for.value)
            ELSE request.host
    IN <<"rate_limit:">> \o client_ip

\* Variant: the key is always derived from the peer address.
get_client_identifier_peer(request) == <<"rate_limit:">> \o request.host

\* RateLimitMiddleware.get_client_identifier
get_client_identifier(request) ==
    LET forwarded_for == request.forwarded_for
        client_ip ==
            IF forwarded_for.present /\ Len(forwarded_for.value) > 0
            THEN strip(split_first(forwarded_for.value))
            ELSE request.host
    IN <<"rate_limit:">> \o client_ip

RLKeys == { get_client_identifier(r) : r \in Requests }

\* ------------------------------------------------------------------ store
\* A sorted-set store: z[key] is the set of (member, score) entries of key,
\* exp[key] the clock second in which the key expires (NoExpiry: none).
\* A key exists exactly when its sorted set is not empty.
EmptyStore == [z |-> [k \in RLKeys |-> {}], exp |-> [k \in RLKeys |-> NoExpiry]]

\* Variant: the upper end of the score range is exclusive.
zremrangebyscore_exclusive(db, key, min, max) ==
    LET kept == { e \in db.z[key] : ~(min <= e.score /\ e.score < max) }
    IN [z |-> [db.z EXCEPT ![key] = kept],
        exp |-> [db.exp EXCEPT ![key] = IF kept = {} THEN NoExpiry ELSE @]]

\* ZREMRANGEBYSCORE key min max: entries with min <= score <= max are removed;
\* a sorted set left empty is deleted together with its expiry.
zremrangebyscore(db, key, min, max) ==
    LET kept == { e \in db.z[key] : ~(min <= e.score /\ e.score <= max) }
    IN [z |-> [db.z EXCEPT ![key] = kept],
        exp |-> [db.exp EXCEPT ![key] = IF kept = {} THEN NoExpiry ELSE @]]

\* ZCARD key
zcard(db, key) == Cardinality(db.z[key])

\* ZADD key {member: score}: the member is added, or its score updated.
zadd(db, key, member, score) ==
    [db EXCEPT !.z[key] =
        { e \in @ : e.member # member } \cup {[member |-> member, score |-> score]}]

\* EXPIRE key seconds, issued in clock second t: no effect on a missing key.
expire(db, key, seconds, t) ==
    IF db.z[key] = {} THEN db
    ELSE [db EXCEPT !.exp[key] = t + seconds]

\* The store drops a key whose time-to-live has run out.
expire_key(db, key) ==
    [z |-> [db.z EXCEPT ![key] = {}], exp |-> [db.exp EXCEPT ![key] = NoExpiry]]

\* ------------------------------------------------------------------ items
\* @cache_response(expire=300) on get_item.
ITEM_CACHE_EXPIRE == 300
ClockStep == ITEM_CACHE_EXPIRE \div 2

\* The ids a request may name: those the table issues and one it never
\* issues.
ItemIds == 1..(MaxItems + 1)
Users == {1, 2}
Titles == {"t1", "t2"}
Descriptions == {"d1"}

\* Optional[...] values.
None == [some |-> FALSE, v |-> ""]
Some(v) == [some |-> TRUE, v |-> v]

\* A row of the item table (models/item.py): id, title, description, owner_id.
NoRow == [id |-> 0, title |-> "", description |-> None, owner_id |-> 0]
Rows ==
    [id : ItemIds, title : Titles,
     description : {None} \cup {Some(d) : d \in Descriptions}, owner_id : Users]

\* ItemCreate and ItemUpdate bodies (schemas/item.py).
ItemCreate == [title : Titles, description : {None} \cup {Some(d) : d \in Descriptions}]
ItemUpdate ==
    [title : {None} \cup {Some(x) : x \in Titles},
     description : {None} \cup {Some(d) : d \in Descriptions}]

\* The item table: rows[i].present says whether id i has a row; last_id is
\* the last id the table issued.
Absent == [present |-> FALSE, row |-> NoRow]
Present(row) == [present |-> TRUE, row |-> row]
EmptyTable == [rows |-> [i \in ItemIds |-> Absent], last_id |-> 0]

\* db.get(Item, item_id)
db_get(table, item_id) == table.rows[item_id]

\* f"item:{item_id}"
item_key(item_id) == <<"item:">> \o str(item_id)
ItemKeys == { item_key(i) : i \in ItemIds }

\* json.dumps / json.loads of an item: every field becomes a typed text.
json_number(n) == [t |-> "number", text |-> str(n)]
json_string(x) == [t |-> "string", text |-> <<x>>]
json_null == [t |-> "null", text |-> <<"null">>]
NoDoc == [id |-> json_null, title |-> json_null, description |-> json_null,
          owner_id |-> json_null]

\* Values other than rows that set_cache may be given: None, booleans,
\* integers and strings (a string is a sequence of characters).
PyNone == [py |-> "None"]
PyBool(b) == [py |-> "bool", b |-> b]
PyInt(n) == [py |-> "int", n |-> n]
PyStr(x) == [py |-> "str", s |-> x]
IsScalar(value) == "py" \in DOMAIN value
JsonScalars ==
    {PyNone, PyBool(FALSE), PyInt(0), PyInt(12), PyStr(<<>>), PyStr(<<"a">>)}

\* json.dumps and json.loads of such a value: null, true/false, the decimal
\* digits, the characters between double quotes.
scalar_dumps(value) ==
    CASE value.py = "None" -> json_null
      [] value.py = "bool" -> [t |-> "bool", text |-> <<IF value.b THEN "true" ELSE "false">>]
      [] value.py = "int" -> json_number(value.n)
      [] value.py = "str" -> [t |-> "string", text |-> <<"\"">> \o value.s \o <<"\"">>]
scalar_loads(doc) ==
    CASE doc.t = "null" -> PyNone
      [] doc.t = "bool" -> PyBool(doc.text[1] = "true")
      [] doc.t = "number" -> PyInt(int(doc.text))
      [] doc.t = "string" -> PyStr(SubSeq(doc.text, 2, Len(doc.text) - 1))

\* json.dumps(value) and json.loads(text); a row is an object of four
\* members.
json_dumps(row) ==
    IF IsScalar(row) THEN scalar_dumps(row)
    ELSE [id |-> json_number(row.id),
          title |-> json_string(row.title),
          description |-> IF row.description.some
                          THEN json_string(row.description.v) ELSE json_null,
          owner_id |-> json_number(row.owner_id)]
json_loads(doc) ==
    IF "text" \in DOMAIN doc THEN scalar_loads(doc)
    ELSE [id |-> int(doc.id.text),
          title |-> doc.title.text[1],
          description |-> IF doc.description.t = "null"
                          THEN None ELSE Some(doc.description.text[1]),
          owner_id |-> int(doc.owner_id.text)]
\* The text is not the empty string (an object never is).
nonempty(doc) == "text" \in DOMAIN doc => Len(doc.text) > 0

\* The string keys of the store: val[key] the stored text (present: the key
\* exists), exp[key] the clock second in which the key expires.
NoValue == [present |-> FALSE, doc |-> NoDoc]
EmptyCache == [val |-> [k \in ItemKeys |-> NoValue], exp |-> [k \in ItemKeys |-> NoExpiry]]
CacheEntry(db, key) == [val |-> db.val[key], exp |-> db.exp[key]]
NoCacheEntry == [val |-> NoValue, exp |-> NoExpiry]

\* SET key value EX seconds, issued in clock second t.
redis_set(db, key, doc, ex, t) ==
    [val |-> [db.val EXCEPT ![key] = [present |-> TRUE, doc |-> doc]],
     exp |-> [db.exp EXCEPT ![key] = t + ex]]
\* GET key
redis_get(db, key) == db.val[key]
\* DEL key: the store without the key, and the number of keys removed.
redis_delete(db, key) ==
    [db |-> [val |-> [db.val EXCEPT ![key] = NoValue],
             exp |-> [db.exp EXCEPT ![key] = NoExpiry]],
     removed |-> IF db.val[key].present THEN 1 ELSE 0]
\* The store at clock second t: keys whose time-to-live has run out are gone.
expire_items(db, t) ==
    [val |-> [k \in ItemKeys |->
                IF db.exp[k] # NoExpiry /\ db.exp[k] <= t THEN NoValue ELSE db.val[k]],
     exp |-> [k \in ItemKeys |->
                IF db.exp[k] # NoExpiry /\ db.exp[k] <= t THEN NoExpiry ELSE db.exp[k]]]

\* Settings.REDIS_DEFAULT_EXPIRE, the default of set_cache's expire.
REDIS_DEFAULT_EXPIRE == 3600

\* Variant: the expire argument is not passed on, the default applies.
set_cache_default_expire(db, key, value, ex, t) ==
    redis_set(db, key, json_dumps(value), REDIS_DEFAULT_EXPIRE, t)

\* set_cache(key, value, expire), with ex the expire argument: the store after
\* it (it returns True).
set_cache(db, key, value, ex, t) == redis_set(db, key, json_dumps(value), ex, t)

\* Variant: the value read is dropped.
get_cache_value_none(db, key) == [some |-> FALSE, v |-> NoRow]

\* Variant: the decoded value is tested, not the text read.
get_cache_value_falsy(db, key) ==
    LET value == redis_get(db, key)
        x == json_loads(value.doc)
        falsy == IsScalar(x) /\ x \in {PyNone, PyBool(FALSE), PyInt(0), PyStr(<<>>)}
    IN IF value.present /\ ~falsy THEN [some |-> TRUE, v |-> x]
       ELSE [some |-> FALSE, v |-> NoRow]

\* get_cache_value(key): json.loads(value) if value else None. The result
\* None is [some |-> FALSE]: for a missing key, and for the text null.
get_cache_value(db, key) ==
    LET value == redis_get(db, key)
        x == json_loads(value.doc)
    IN IF value.present /\ nonempty(value.doc) /\ x # PyNone
       THEN [some |-> TRUE, v |-> x]
       ELSE [some |-> FALSE, v |-> NoRow]

\* Variant: every key of the store is removed.
delete_cache_all(db, key) ==
    [db |-> [val |-> [k \in DOMAIN db.val |-> NoValue],
             exp |-> [k \in DOMAIN db.exp |-> NoExpiry]],
     deleted |-> db.val[key].present]

\* delete_cache(key): the store after it and bool(deleted).
delete_cache(db, key) ==
    LET r == redis_delete(db, key)
    IN [db |-> r.db, deleted |-> r.removed # 0]

\* invalidate_cache(key): the entry is deleted, present or not.
invalidate_cache(db, key) == delete_cache(db, key).db

\* History values for the properties.
Nothing == [some |-> FALSE, v |-> NoRow]
NoWrite == [some |-> FALSE, body |-> NoRow, cached |-> FALSE, exp |-> NoExpiry]

NoItemResponse == [status |-> 0, body |-> NoRow]
IdleItemTask ==
    [pc |-> "idle", op |-> "none", item_id |-> 0, key |-> <<>>, user |-> 0,
     result |-> NoRow, response |-> NoItemResponse,
     \* history of the request, for the properties
     loads |-> 0, hit |-> FALSE, expect |-> Nothing, prior |-> NoWrite,
     loaded_at |-> NoTime, stored_at |-> NoTime, events |-> <<>>, deleted |-> FALSE,
     faults |-> 0,
     \* the body of an update_item between its commit and its invalidation
     item_in |-> [title |-> None, description |-> None]]

\* ------------------------------------------------------------------ users
Usernames == {"ann", "bob"}
Emails == {"ann@x.io", "bob@x.io"}

\* UserCreate bodies (schemas/user.py): username, email, full_name, password.
UserCreate ==
    [username : Usernames, email : Emails, full_name : {"N"},
     password : {"password1"}]

\* security.get_password_hash: an opaque hash of the password.
get_password_hash(password) == <<"hash", password>>

\* The user table (models/user.py): the rows and the last id issued.
NoUser ==
    [id |-> 0, username |-> "", email |-> "", full_name |-> None,
     hashed_password |-> <<>>, is_active |-> FALSE]
EmptyUsers == [rows |-> {}, last_id |-> 0]

\* unique=True on username and on email (user.py 23-24).
Unique(rows) ==
    \A a, b \in rows :
       (a.username = b.username \/ a.email = b.email) => a = b

\* Tables of at most MaxUsers rows stored with their full name, ids 1..n.
StoredRows ==
    [id : 1..MaxUsers, username : Usernames, email : Emails,
     full_name : {Some("N")}, hashed_password : {get_password_hash("password1")},
     is_active : {TRUE}]
StoredUsers ==
    {[rows |-> R, last_id |-> Cardinality(R)] :
       R \in {R \in SUBSET StoredRows :
                /\ {r.id : r \in R} = 1..Cardinality(R)
                /\ Unique(R)}}

\* db.query(User).filter(User.username == username).first()
first_by_username(tab, username) ==
    LET found == {r \in tab.rows : r.username = username}
    IN IF found = {} THEN [present |-> FALSE, row |-> NoUser]
       ELSE [present |-> TRUE, row |-> CHOOSE r \in found : TRUE]

\* db.query(User).filter(User.email == email).first()
first_by_email(tab, email) ==
    LET found == {r \in tab.rows : r.email = email}
    IN IF found = {} THEN [present |-> FALSE, row |-> NoUser]
       ELSE [present |-> TRUE, row |-> CHOOSE r \in found : TRUE]

\* db.add(db_user); db.commit(): the row is inserted under the next id
\* unless a constraint of the table refuses it: full_name is not nullable,
\* username and email are unique.
insert_user(tab, row) ==
    IF ~row.full_name.some
    THEN [ok |-> FALSE, tab |-> tab, row |-> NoUser]
    ELSE IF \E r \in tab.rows : r.username = row.username \/ r.email = row.email
    THEN [ok |-> FALSE, tab |-> tab, row |-> NoUser]
    ELSE LET stored == [row EXCEPT !.id = tab.last_id + 1]
         IN [ok |-> TRUE,
             tab |-> [rows |-> tab.rows \cup {stored}, last_id |-> tab.last_id + 1],
             row |-> stored]

\* A register call: its position, its body, what the table held for its
\* username and email when it was called, and its response.
NoUserResponse == [status |-> 0, detail |-> "", body |-> NoUser]
IdleUserTask ==
    [pc |-> "idle",
     user |-> [username |-> "", email |-> "", full_name |-> "", password |-> ""],
     taken |-> [username |-> FALSE, email |-> FALSE],
     response |-> NoUserResponse]

\* ------------------------------------------------------------------ state
VARIABLES
    now,        \* the store clock (redis TIME), in seconds
    settings,   \* app.config.settings
    mw,         \* the RateLimitMiddleware instance (self)
    redis,      \* the rate-limit keys of the store
    shadow,     \* shadow[c]: the store had only client key c sent requests
    batch,      \* per client key: its current run of requests (history)
    overlapped, \* per client key: two of its checks have been in flight at once
    held,       \* per client key: the oldest marker when the key last reached the limit
    errors,     \* number of store errors raised so far
    tasks,      \* the request tasks, one slot per task in flight
    items,      \* the item table of the database
    cache,      \* the item keys of the store
    served,     \* per item: the value returned by the read that filled its entry
    prewrite,   \* per item: the last committed write not yet followed by a read
    itasks,     \* the item request tasks, one slot per task in flight
    users,      \* the user table of the database
    utasks,     \* the register calls, one slot per call in flight
    origin      \* the request being checked, and the peers seen under each key

limiter_vars == <<settings, mw, redis, shadow, batch, overlapped, held, errors, tasks>>
item_vars == <<items, cache, served, prewrite, itasks>>
user_vars == <<users, utasks>>
vars == <<now, limiter_vars, item_vars, user_vars, origin>>

Slots == 1..MaxInFlight

DETAIL == "Too many requests. Please try again later."
DownstreamStatuses == {200, 401}

NoHeaders == [present |-> FALSE, limit |-> <<>>, remaining |-> <<>>, reset |-> <<>>]
NoResponse == [status |-> 0, body |-> "", headers |-> NoHeaders]
NoEntry == [z |-> {}, exp |-> NoExpiry]

\* The entry of one key: its sorted set and its expiry.
Entry(db, key) == [z |-> db.z[key], exp |-> db.exp[key]]

IdleTask ==
    [pc |-> "idle", limited |-> FALSE, client_id |-> <<>>, request |-> NoRequest,
     current_time |-> NoTime, request_count |-> 0,
     is_allowed |-> TRUE, remaining |-> 0,
     err |-> "none", ops |-> <<>>, next_calls |-> 0,
     response |-> NoResponse,
     \* history of the evaluation, for the properties
     oldest |-> NoTime, after_purge |-> NoEntry,
     k |-> 0, first_t |-> NoTime, clean |-> TRUE, inserted |-> 0, held |-> NoTime,
     solo |-> FALSE, rested |-> FALSE,
     g_count |-> 0, g_allowed |-> TRUE, g_remaining |-> 0]

NoOrigin ==
    [req |-> NoRequest, fresh |-> FALSE, newcomer |-> FALSE,
     seen |-> [c \in RLKeys |-> {}]]

NoBatch == [first_t |-> NoTime, last_t |-> NoTime, n |-> 0, adm |-> 0, clean |-> TRUE]

Free(s) == tasks[s].pc = "idle"

\* A response that is complete is returned before anything else happens.
Returned == \A s \in Slots : tasks[s].pc # "done"
StoreSteps == {"time", "zremrangebyscore", "zcard", "zadd", "expire"}

\* RateLimitMiddleware.__init__
middleware_init(cfg) ==
    [rate_limit_requests |-> cfg.RATE_LIMIT_REQUESTS,
     rate_limit_window |-> cfg.RATE_LIMIT_WINDOW]

Init ==
    /\ now = 0
    /\ settings = [RATE_LIMIT_ENABLED |-> TRUE,
                   RATE_LIMIT_REQUESTS |-> RATE_LIMIT_REQUESTS,
                   RATE_LIMIT_WINDOW |-> RATE_LIMIT_WINDOW]
    /\ mw = middleware_init(settings)
    /\ redis = EmptyStore
    /\ shadow = [c \in RLKeys |-> EmptyStore]
    /\ batch = [c \in RLKeys |-> NoBatch]
    /\ overlapped = [c \in RLKeys |-> FALSE]
    /\ held = [c \in RLKeys |-> NoTime]
    /\ errors = 0
    /\ tasks = [s \in Slots |-> IdleTask]
    /\ items = EmptyTable
    /\ cache = EmptyCache
    /\ served = [i \in ItemIds |-> Nothing]
    /\ prewrite = [i \in ItemIds |-> NoWrite]
    /\ itasks = [s \in Slots |-> IdleItemTask]
    /\ users = EmptyUsers
    /\ utasks = [s \in Slots |-> IdleUserTask]
    /\ origin = NoOrigin

\* ------------------------------------------------------------------ limiter
\* Variant: a count equal to the limit is still admitted.
over_limit_strict(request_count, limit) == request_count > limit

\* check_rate_limit: the comparison of the count with the limit.
over_limit(request_count, limit) == request_count >= limit

\* check_rate_limit: remaining of an admitted request.
remaining_after(request_count, limit) == limit - request_count - 1

\* Variant: the except branch rejects (fail-closed).
on_redis_error_closed(limit) == [is_allowed |-> FALSE, remaining |-> 0]

\* check_rate_limit: the result of the except branch.
on_redis_error(limit) == [is_allowed |-> TRUE, remaining |-> limit]

\* Variant: the reset header is the time at which the window ends.
set_rate_limit_headers_timestamp(self, remaining) ==
    [present |-> TRUE,
     limit |-> str(self.rate_limit_requests),
     remaining |-> str(IF remaining > 0 THEN remaining ELSE 0),
     reset |-> str(now + self.rate_limit_window)]

\* RateLimitMiddleware.set_rate_limit_headers
set_rate_limit_headers(self, remaining) ==
    [present |-> TRUE,
     limit |-> str(self.rate_limit_requests),
     remaining |-> str(IF remaining > 0 THEN remaining ELSE 0),
     reset |-> str(self.rate_limit_window)]

\* The run of requests of one client key: a request starts a new run when
\* every earlier request of the key is at least a window old.
\* A run that had a store error, or whose first request is a window old, is
\* kept only as the time of its last request.
spoiled_batch(b) ==
    [first_t |-> NoTime, last_t |-> b.last_t, n |-> RATE_LIMIT_REQUESTS + 2,
     adm |-> 0, clean |-> FALSE]

norm_batch(b, t, window) ==
    IF b.n = 0 \/ b.last_t <= t - window THEN NoBatch
    ELSE IF ~b.clean \/ b.first_t <= t - window THEN spoiled_batch(b)
    ELSE b

next_batch(b, t, window) ==
    LET nb == norm_batch(b, t, window)
    IN IF nb.n = 0
       THEN [first_t |-> t, last_t |-> t, n |-> 1, adm |-> 0, clean |-> TRUE]
       ELSE [nb EXCEPT !.last_t = t,
                       !.n = IF @ > RATE_LIMIT_REQUESTS + 1 THEN @ ELSE @ + 1]

\* The runs of one client key are followed (the keys are alike).
FollowedKey == <<"rate_limit:", "a">>

\* Variant: the enabled flag is not consulted.
dispatch_unconditional(s, request) ==
    /\ Free(s)
    /\ tasks' = [tasks EXCEPT ![s] =
          [IdleTask EXCEPT !.pc = "time", !.limited = TRUE,
                           !.client_id = get_client_identifier(request)]]
    /\ UNCHANGED <<now, settings, mw, redis, shadow, batch, overlapped, errors, held, item_vars, user_vars>>

\* __call__, up to the first await: the enabled flag, then the client key.
dispatch(s, request) ==
    /\ Free(s)
    /\ tasks' = [o \in Slots |->
          IF o = s
          THEN IF ~settings.RATE_LIMIT_ENABLED
               THEN [IdleTask EXCEPT !.pc = "bypass"]
               ELSE [IdleTask EXCEPT
                       !.pc = "time", !.limited = TRUE,
                       !.client_id = get_client_identifier(request),
                       \* history: no other check of the key is in flight
                       !.solo = ~\E x \in Slots :
                                   /\ tasks[x].pc \in StoreSteps
                                   /\ tasks[x].client_id = get_client_identifier(request)]
          ELSE IF settings.RATE_LIMIT_ENABLED
                  /\ tasks[o].pc \in StoreSteps
                  /\ tasks[o].client_id = get_client_identifier(request)
          THEN [tasks[o] EXCEPT !.solo = FALSE]
          ELSE tasks[o]]
    /\ overlapped' =
          IF settings.RATE_LIMIT_ENABLED
             /\ \E o \in Slots : /\ tasks[o].pc \in StoreSteps
                                 /\ tasks[o].client_id = get_client_identifier(request)
          THEN [overlapped EXCEPT ![get_client_identifier(request)] = TRUE]
          ELSE overlapped
    /\ UNCHANGED <<now, settings, mw, redis, shadow, batch, errors, held, item_vars, user_vars>>

\* current_time = await redis_client.time()
redis_time(s) ==
    LET t == tasks[s]
        c == t.client_id
        nb == next_batch(batch[c], now, mw.rate_limit_window)
        b == IF c # FollowedKey THEN NoBatch
             ELSE IF overlapped[c] THEN spoiled_batch(nb) ELSE nb
    IN /\ Returned
       /\ t.pc = "time"
       /\ batch' = [batch EXCEPT ![c] = b]
       /\ tasks' = [tasks EXCEPT ![s] =
             [t EXCEPT !.pc = "zremrangebyscore", !.current_time = now,
                       !.ops = Append(@, "time"),
                       !.oldest = IF redis.z[c] = {} THEN NoTime
                                  ELSE Min({e.score : e \in redis.z[c]}),
                       \* history: the key has held the limit before this check
                       !.held = held[c],
                       \* history: every marker of the key is a window old
                       !.rested = \A e \in redis.z[c] :
                                    e.score <= now - mw.rate_limit_window,
                       !.k = b.n, !.first_t = b.first_t,
                       !.clean = b.clean /\ c = FollowedKey]]
       /\ UNCHANGED <<now, settings, mw, redis, shadow, overlapped, errors, held, item_vars, user_vars, origin>>

\* Variant: no purge, the markers go only when the key expires.
purge_skipped(db, client_id, current_time, window) == db

\* Variant: a marker exactly a window old is kept.
purge_late(db, client_id, current_time, window) ==
    zremrangebyscore(db, client_id, 0, current_time - window - 1)

\* window_start and await redis_client.zremrangebyscore(client_id, 0, window_start)
purge(db, client_id, current_time, window) ==
    zremrangebyscore(db, client_id, 0, current_time - window)

redis_zremrangebyscore(s) ==
    LET t == tasks[s]
        c == t.client_id
        db == purge(redis, c, t.current_time, mw.rate_limit_window)
    IN /\ Returned
       /\ t.pc = "zremrangebyscore"
       /\ redis' = db
       /\ shadow' = [shadow EXCEPT ![c] =
             purge(@, c, t.current_time, mw.rate_limit_window)]
       /\ tasks' = [tasks EXCEPT ![s] =
             [t EXCEPT !.pc = "zcard", !.ops = Append(@, "zremrangebyscore"),
                       !.after_purge = Entry(db, c)]]
       /\ UNCHANGED <<now, settings, mw, batch, overlapped, errors, held, item_vars, user_vars, origin>>

\* request_count = await redis_client.zcard(client_id), and the comparison
redis_zcard(s) ==
    LET t == tasks[s]
        c == t.client_id
        request_count == zcard(redis, c)
        g_count == zcard(shadow[c], c)
        limit == mw.rate_limit_requests
    IN /\ Returned
       /\ t.pc = "zcard"
       /\ tasks' = [tasks EXCEPT ![s] =
             [t EXCEPT !.ops = Append(@, "zcard"),
                       !.request_count = request_count,
                       !.g_count = g_count,
                       !.g_allowed = ~over_limit(g_count, limit),
                       !.g_remaining = IF over_limit(g_count, limit) THEN 0
                                       ELSE remaining_after(g_count, limit),
                       !.pc = IF over_limit(request_count, limit)
                              THEN "reject" ELSE "zadd",
                       !.is_allowed = ~over_limit(request_count, limit),
                       !.remaining = IF over_limit(request_count, limit) THEN 0
                                     ELSE remaining_after(request_count, limit),
                       \* the store after the purge matters for a rejection only
                       !.after_purge = IF over_limit(request_count, limit)
                                       THEN @ ELSE NoEntry]]
       \* history: the admitted requests of the run
       /\ batch' = IF batch[c].clean /\ batch[c].n > 0
                      /\ ~over_limit(request_count, limit)
                   THEN [batch EXCEPT ![c].adm =
                           IF @ > RATE_LIMIT_REQUESTS THEN @ ELSE @ + 1]
                   ELSE batch
       /\ UNCHANGED <<now, settings, mw, redis, shadow, overlapped, errors, held, item_vars, user_vars, origin>>

\* Variant: every client is recorded under one key.
record_request_shared(db, client_id, current_time) ==
    zadd(db, CHOOSE k \in RLKeys : TRUE, str(current_time), current_time)

\* await redis_client.zadd(client_id, {str(current_time[0]): current_time[0]})
record_request(db, client_id, current_time) ==
    zadd(db, client_id, str(current_time), current_time)

redis_zadd(s) ==
    LET t == tasks[s]
        c == t.client_id
    IN /\ Returned
       /\ t.pc = "zadd"
       /\ redis' = record_request(redis, c, t.current_time)
       /\ shadow' = [shadow EXCEPT ![c] = record_request(@, c, t.current_time)]
       \* history: the key reaches the limit
       /\ held' = IF c = FollowedKey
                     /\ over_limit(zcard(record_request(redis, c, t.current_time), c),
                                   mw.rate_limit_requests)
                  THEN [held EXCEPT ![c] =
                          Min({e.score : e \in
                                 record_request(redis, c, t.current_time).z[c]})]
                  ELSE held
       /\ tasks' = [tasks EXCEPT ![s] =
             [t EXCEPT !.pc = "expire", !.ops = Append(@, "zadd"),
                       \* history: the markers of the key after the insert
                       !.inserted = zcard(record_request(redis, c, t.current_time), c)]]
       /\ UNCHANGED <<now, settings, mw, batch, overlapped, errors, item_vars, user_vars, origin>>

\* await redis_client.expire(client_id, self.rate_limit_window); return True, remaining
redis_expire(s) ==
    LET t == tasks[s]
        c == t.client_id
    IN /\ Returned
       /\ t.pc = "expire"
       /\ redis' = expire(redis, c, mw.rate_limit_window, now)
       /\ shadow' = [shadow EXCEPT ![c] = expire(@, c, mw.rate_limit_window, now)]
       /\ tasks' = [tasks EXCEPT ![s] =
             [t EXCEPT !.pc = "call_next", !.ops = Append(@, "expire")]]
       /\ UNCHANGED <<now, settings, mw, batch, overlapped, errors, held, item_vars, user_vars, origin>>

\* Variant: an error at the expire step takes the marker back.
redis_error_rollback(s) ==
    LET t == tasks[s]
        c == t.client_id
        r == on_redis_error(mw.rate_limit_requests)
    IN /\ Returned
       /\ t.pc \in StoreSteps
       /\ errors < MaxErrors
       /\ errors' = errors + 1
       /\ redis' = IF t.pc = "expire"
                   THEN zremrangebyscore(redis, c, t.current_time, t.current_time)
                   ELSE redis
       /\ batch' = [batch EXCEPT ![c] = IF @.n = 0 THEN @ ELSE spoiled_batch(@)]
       /\ tasks' = [tasks EXCEPT ![s] =
             [t EXCEPT !.pc = IF r.is_allowed THEN "call_next" ELSE "reject",
                       !.err = t.pc, !.clean = FALSE,
                       !.is_allowed = r.is_allowed, !.remaining = r.remaining,
                       !.g_allowed = r.is_allowed, !.g_remaining = r.remaining]]
       /\ UNCHANGED <<now, settings, mw, shadow, overlapped, held, item_vars, user_vars, origin>>

\* except RedisError: the store operation the task is at raises; the
\* operation has no effect and check_rate_limit returns the fail-open result.
redis_error(s) ==
    LET t == tasks[s]
        c == t.client_id
        r == on_redis_error(mw.rate_limit_requests)
    IN /\ Returned
       /\ t.pc \in StoreSteps
       /\ errors < MaxErrors
       /\ errors' = errors + 1
       /\ batch' = [batch EXCEPT ![c] = IF @.n = 0 THEN @ ELSE spoiled_batch(@)]
       /\ tasks' = [tasks EXCEPT ![s] =
             [t EXCEPT !.pc = IF r.is_allowed THEN "call_next" ELSE "reject",
                       !.err = t.pc, !.clean = FALSE,
                       !.is_allowed = r.is_allowed, !.remaining = r.remaining,
                       !.g_allowed = r.is_allowed, !.g_remaining = r.remaining]]
       /\ UNCHANGED <<now, settings, mw, redis, shadow, overlapped, held, item_vars, user_vars, origin>>

\* Variant: the rejected attempt is recorded as well.
reply_429_recording(s) ==
    LET t == tasks[s]
        c == t.client_id
    IN /\ t.pc = "reject"
       /\ redis' = expire(zadd(redis, c, str(t.current_time), t.current_time),
                          c, mw.rate_limit_window, now)
       /\ tasks' = [tasks EXCEPT ![s] =
             [t EXCEPT !.pc = "done",
                       !.response = [status |-> 429, body |-> DETAIL,
                                     headers |-> set_rate_limit_headers(mw, t.remaining)]]]
       /\ UNCHANGED <<now, settings, mw, shadow, batch, overlapped, errors, held, item_vars, user_vars, origin>>

\* Variant: the rejected request still reaches the downstream handler.
reply_429_fallthrough(s) ==
    LET t == tasks[s]
    IN /\ t.pc = "reject"
       /\ tasks' = [tasks EXCEPT ![s] =
             [t EXCEPT !.pc = "done", !.next_calls = @ + 1,
                       !.response = [status |-> 429, body |-> DETAIL,
                                     headers |-> set_rate_limit_headers(mw, t.remaining)]]]
       /\ UNCHANGED <<now, settings, mw, redis, shadow, batch, overlapped, errors, held, item_vars, user_vars, origin>>

\* __call__: the 429 response of a request that is not allowed.
reply_429(s) ==
    LET t == tasks[s]
    IN /\ Returned
       /\ t.pc = "reject"
       /\ tasks' = [tasks EXCEPT ![s] =
             [t EXCEPT !.pc = "done",
                       !.response = [status |-> 429, body |-> DETAIL,
                                     headers |-> set_rate_limit_headers(mw, t.remaining)]]]
       /\ UNCHANGED <<now, settings, mw, redis, shadow, batch, overlapped, errors, held, item_vars, user_vars, origin>>

\* __call__: response = await call_next(request), then the headers.
call_next(s) ==
    LET t == tasks[s]
    IN /\ Returned
       /\ t.pc = "call_next"
       /\ \E status \in DownstreamStatuses :
            tasks' = [tasks EXCEPT ![s] =
               [t EXCEPT !.pc = "done", !.next_calls = @ + 1,
                         !.response = [status |-> status, body |-> "downstream",
                                       headers |-> set_rate_limit_headers(mw, t.remaining)]]]
       /\ UNCHANGED <<now, settings, mw, redis, shadow, batch, overlapped, errors, held, item_vars, user_vars, origin>>

\* The response has been returned: the task ends.
finish(s) ==
    /\ tasks[s].pc = "done"
    /\ tasks' = [tasks EXCEPT ![s] = IdleTask]
    /\ UNCHANGED <<now, settings, mw, redis, shadow, batch, overlapped, errors, held, item_vars, user_vars, origin>>

\* __call__ with RATE_LIMIT_ENABLED false: return await call_next(request)
call_next_bypass(s) ==
    LET t == tasks[s]
    IN /\ Returned
       /\ t.pc = "bypass"
       /\ \E status \in DownstreamStatuses :
            tasks' = [tasks EXCEPT ![s] =
               [t EXCEPT !.pc = "done", !.next_calls = @ + 1,
                         !.response = [status |-> status, body |-> "downstream",
                                       headers |-> NoHeaders]]]
       /\ UNCHANGED <<now, settings, mw, redis, shadow, batch, overlapped, errors, held, item_vars, user_vars, origin>>

\* ------------------------------------------------------------------ environment
\* The store clock advances; a key whose time-to-live ends in the current
\* second is gone before the next second begins.
Tick ==
    /\ Returned
    /\ now < MaxTime
    /\ \A k \in RLKeys : redis.exp[k] = NoExpiry \/ redis.exp[k] > now
    /\ now' = now + 1
    /\ batch' = [c \in RLKeys |-> norm_batch(batch[c], now + 1, mw.rate_limit_window)]
    /\ UNCHANGED <<settings, mw, redis, shadow, tasks, overlapped, errors, held, item_vars, user_vars, origin>>

KeyExpires ==
    \E k \in RLKeys :
       /\ Returned
       /\ redis.exp[k] # NoExpiry
       /\ redis.exp[k] <= now
       /\ redis' = expire_key(redis, k)
       /\ shadow' = [c \in RLKeys |-> expire_key(shadow[c], k)]
       /\ UNCHANGED <<now, settings, mw, batch, tasks, overlapped, errors, held, item_vars, user_vars, origin>>

\* settings.RATE_LIMIT_ENABLED is set at run time, between requests
\* (tests/test_rate_limit.py); __call__ reads it once, before anything else.
SetEnabled ==
    /\ \A s \in Slots : Free(s)
    /\ settings' = [settings EXCEPT !.RATE_LIMIT_ENABLED = ~@]
    /\ UNCHANGED <<now, mw, redis, shadow, batch, tasks, overlapped, errors, held, item_vars, user_vars, origin>>

\* ------------------------------------------------------------------ specifications
\* Requests handled one at a time (the test clients await each response).
StartRequest ==
    /\ \A s \in Slots : Free(s)
    /\ \E request \in Requests : dispatch(1, request)
    /\ UNCHANGED origin

\* Requests of one client handled concurrently, limiter enabled, no store
\* errors.
ConcurrentRequests == { r \in Requests : ~r.forwarded_for.present /\ r.host = <<"a">> }

StartConcurrent ==
    /\ settings.RATE_LIMIT_ENABLED
    /\ Returned
    /\ \E s \in Slots :
          /\ Free(s)
          /\ \A o \in Slots : o < s => ~Free(o)
          /\ \E request \in ConcurrentRequests : dispatch(s, request)
    /\ UNCHANGED origin

Steps ==
    \/ \E s \in Slots : redis_time(s)
    \/ \E s \in Slots : redis_zremrangebyscore(s)
    \/ \E s \in Slots : redis_zcard(s)
    \/ \E s \in Slots : redis_zadd(s)
    \/ \E s \in Slots : redis_expire(s)
    \/ \E s \in Slots : reply_429(s)
    \/ \E s \in Slots : call_next(s)
    \/ \E s \in Slots : finish(s)
    \/ Tick
    \/ KeyExpires

Next ==
    \/ StartRequest
    \/ Steps
    \/ \E s \in Slots : redis_error(s)
    \/ \E s \in Slots : call_next_bypass(s)
    \/ SetEnabled

Spec == Init /\ [][Next]_vars

NextConc == StartConcurrent \/ Steps

SpecConc == Init /\ [][NextConc]_vars

\* Requests that carry X-Forwarded-For, from any peer, handled one at a time
\* with the limiter enabled and no store errors; origin follows the request
\* being checked and the peers that have sent requests under each key.
ForwardedRequests ==
    { r \in Requests : r.forwarded_for.present /\ r.forwarded_for.value # <<>> }

StartFromPeer ==
    /\ \A s \in Slots : Free(s)
    /\ \E request \in ForwardedRequests :
          LET c == get_client_identifier(request)
          IN /\ dispatch(1, request)
             /\ origin' = [req |-> request,
                           fresh |-> origin.seen[c] = {},
                           newcomer |-> request.host \notin origin.seen[c],
                           seen |-> [origin.seen EXCEPT ![c] = @ \cup {request.host}]]

NextPeers == StartFromPeer \/ Steps

\* settings.RATE_LIMIT_REQUESTS is an int that nothing validates
\* (config.py 26): the middleware is constructed with 0, or with any value
\* up to the configured one.
PeerLimits == 0..RATE_LIMIT_REQUESTS
InitPeers ==
    /\ now = 0
    /\ \E n \in PeerLimits :
          settings = [RATE_LIMIT_ENABLED |-> TRUE,
                      RATE_LIMIT_REQUESTS |-> n,
                      RATE_LIMIT_WINDOW |-> RATE_LIMIT_WINDOW]
    /\ mw = middleware_init(settings)
    /\ redis = EmptyStore
    /\ shadow = [c \in RLKeys |-> EmptyStore]
    /\ batch = [c \in RLKeys |-> NoBatch]
    /\ overlapped = [c \in RLKeys |-> FALSE]
    /\ held = [c \in RLKeys |-> NoTime]
    /\ errors = 0
    /\ tasks = [s \in Slots |-> IdleTask]
    /\ items = EmptyTable
    /\ cache = EmptyCache
    /\ served = [i \in ItemIds |-> Nothing]
    /\ prewrite = [i \in ItemIds |-> NoWrite]
    /\ itasks = [s \in Slots |-> IdleItemTask]
    /\ users = EmptyUsers
    /\ utasks = [s \in Slots |-> IdleUserTask]
    /\ origin = NoOrigin

SpecPeers == InitPeers /\ [][NextPeers]_vars

\* settings.RATE_LIMIT_REQUESTS and settings.RATE_LIMIT_WINDOW are set at run
\* time, between requests, as the rate_limit_client fixture does: to other
\* values, or back to the configured ones.
OtherLimits ==
    [RATE_LIMIT_REQUESTS |-> RATE_LIMIT_REQUESTS - 1,
     RATE_LIMIT_WINDOW |-> RATE_LIMIT_WINDOW - 1]
ConfiguredLimits ==
    [RATE_LIMIT_REQUESTS |-> RATE_LIMIT_REQUESTS,
     RATE_LIMIT_WINDOW |-> RATE_LIMIT_WINDOW]
SetLimits ==
    /\ \A s \in Slots : Free(s)
    /\ \E v \in {OtherLimits, ConfiguredLimits} :
          /\ v.RATE_LIMIT_REQUESTS # settings.RATE_LIMIT_REQUESTS
          /\ settings' = [settings EXCEPT
                !.RATE_LIMIT_REQUESTS = v.RATE_LIMIT_REQUESTS,
                !.RATE_LIMIT_WINDOW = v.RATE_LIMIT_WINDOW]
    /\ UNCHANGED <<now, mw, redis, shadow, batch, tasks, overlapped, errors, held, item_vars, user_vars, origin>>

\* Requests handled one at a time, with the settings changed at run time.
NextConfig == Next \/ SetLimits

SpecConfig == Init /\ [][NextConfig]_vars

\* ------------------------------------------------------------------ item requests
\* A response that is complete is returned before anything else happens; a
\* request that arrives is handled by a new task (the lowest free slot).
ItemsReturned == \A s \in Slots : itasks[s].pc # "done"
CanStart(s) ==
    /\ ItemsReturned
    /\ itasks[s].pc = "idle"
    /\ \A o \in Slots : o < s => itasks[o].pc # "idle"
\* No item request is in flight (the test client awaits each response).
OneAtATime == \A o \in Slots : itasks[o].pc = "idle"

\* create_item: the row is added and committed; the table issues the id.
create_item(s, item_in, current_user) ==
    LET id == items.last_id + 1
        item == [id |-> id, title |-> item_in.title,
                 description |-> item_in.description, owner_id |-> current_user]
    IN /\ CanStart(s)
       /\ items.last_id < MaxItems
       /\ items' = [rows |-> [items.rows EXCEPT ![id] = Present(item)], last_id |-> id]
       /\ itasks' = [itasks EXCEPT ![s] =
             [IdleItemTask EXCEPT !.pc = "done", !.op = "create", !.item_id = id,
                                  !.result = item,
                                  !.response = [status |-> 201, body |-> item]]]
       /\ UNCHANGED <<now, limiter_vars, cache, served, prewrite, user_vars, origin>>

\* cache_response, on the way in: the lookup of the key of the item. A hit
\* is decoded and returned without calling get_item.
cache_lookup(s, item_id) ==
    LET key == item_key(item_id)
        cached == get_cache_value(cache, key)
        t == [IdleItemTask EXCEPT !.op = "get", !.item_id = item_id, !.key = key,
                                  !.expect = served[item_id],
                                  !.prior = prewrite[item_id]]
    IN /\ CanStart(s)
       /\ itasks' = [itasks EXCEPT ![s] =
             IF cached.some
             THEN [t EXCEPT !.pc = "done", !.hit = TRUE,
                            !.response = [status |-> 200, body |-> cached.v]]
             ELSE [t EXCEPT !.pc = "load"]]
       /\ prewrite' = [prewrite EXCEPT ![item_id] = NoWrite]
       /\ UNCHANGED <<now, limiter_vars, items, cache, served, user_vars, origin>>

\* get_item: the load from the database, 404 when there is no row.
get_item(s) ==
    LET t == itasks[s]
        item == db_get(items, t.item_id)
    IN /\ ItemsReturned
       /\ t.pc = "load"
       /\ itasks' = [itasks EXCEPT ![s] =
             IF ~item.present
             THEN [t EXCEPT !.pc = "done", !.loads = @ + 1,
                            !.response = [status |-> 404, body |-> NoRow]]
             ELSE [t EXCEPT !.pc = "store", !.loads = @ + 1, !.loaded_at = now,
                            !.result = item.row]]
       /\ UNCHANGED <<now, limiter_vars, items, cache, served, prewrite, user_vars, origin>>

\* cache_response, on the way out: the encoded result is stored under the
\* key with the fixed time-to-live and returned.
cache_store(s) ==
    LET t == itasks[s]
    IN /\ ItemsReturned
       /\ t.pc = "store"
       /\ cache' = set_cache(cache, t.key, t.result, ITEM_CACHE_EXPIRE, now)
       /\ served' = [served EXCEPT ![t.item_id] = [some |-> TRUE, v |-> t.result]]
       /\ itasks' = [itasks EXCEPT ![s] =
             [t EXCEPT !.pc = "done", !.loaded_at = NoTime, !.stored_at = now,
                       !.response = [status |-> 200, body |-> t.result]]]
       /\ UNCHANGED <<now, limiter_vars, items, prewrite, user_vars, origin>>

\* Variant: the entry is invalidated before the commit.
update_item_invalidate_first(s, item_id, item_in, current_user) ==
    LET item == db_get(items, item_id)
        key == item_key(item_id)
        t == [IdleItemTask EXCEPT !.op = "update", !.item_id = item_id, !.key = key,
                                  !.user = current_user]
        updated == [item.row EXCEPT
                      !.title = IF item_in.title.some THEN item_in.title.v ELSE @,
                      !.description = IF item_in.description.some
                                      THEN item_in.description ELSE @]
    IN /\ CanStart(s)
       /\ IF ~item.present
          THEN /\ itasks' = [itasks EXCEPT ![s] =
                     [t EXCEPT !.pc = "done", !.events = <<"response">>,
                               !.response = [status |-> 404, body |-> NoRow]]]
               /\ UNCHANGED <<items, prewrite>>
          ELSE IF item.row.owner_id # current_user
          THEN /\ itasks' = [itasks EXCEPT ![s] =
                     [t EXCEPT !.pc = "done", !.events = <<"response">>,
                               !.response = [status |-> 403, body |-> NoRow]]]
               /\ UNCHANGED <<items, prewrite>>
          ELSE /\ items' = [items EXCEPT !.rows[item_id] = Present(updated)]
               /\ prewrite' = [prewrite EXCEPT ![item_id] =
                     [some |-> TRUE, body |-> item.row,
                      cached |-> cache.val[key].present, exp |-> cache.exp[key]]]
               /\ itasks' = [itasks EXCEPT ![s] =
                     [t EXCEPT !.pc = "invalidate", !.result = updated,
                               !.events = <<"invalidate", "commit">>]]
       /\ cache' = IF item.present /\ item.row.owner_id = current_user
                   THEN invalidate_cache(cache, key) ELSE cache
       /\ served' = IF item.present /\ item.row.owner_id = current_user
                    THEN [served EXCEPT ![item_id] = Nothing] ELSE served
       /\ UNCHANGED <<now, limiter_vars, user_vars, origin>>

\* Variant: the description is replaced by the body's, supplied or not.
update_item_replace(s, item_id, item_in, current_user) ==
    LET item == db_get(items, item_id)
        key == item_key(item_id)
        t == [IdleItemTask EXCEPT !.op = "update", !.item_id = item_id, !.key = key,
                                  !.user = current_user]
        updated == [item.row EXCEPT
                      !.title = IF item_in.title.some THEN item_in.title.v ELSE @,
                      !.description = item_in.description]
    IN /\ CanStart(s)
       /\ IF ~item.present
          THEN /\ itasks' = [itasks EXCEPT ![s] =
                     [t EXCEPT !.pc = "done", !.events = <<"response">>,
                               !.response = [status |-> 404, body |-> NoRow]]]
               /\ UNCHANGED <<items, prewrite>>
          ELSE IF item.row.owner_id # current_user
          THEN /\ itasks' = [itasks EXCEPT ![s] =
                     [t EXCEPT !.pc = "done", !.events = <<"response">>,
                               !.response = [status |-> 403, body |-> NoRow]]]
               /\ UNCHANGED <<items, prewrite>>
          ELSE /\ items' = [items EXCEPT !.rows[item_id] = Present(updated)]
               /\ prewrite' = [prewrite EXCEPT ![item_id] =
                     [some |-> TRUE, body |-> item.row,
                      cached |-> cache.val[key].present, exp |-> cache.exp[key]]]
               /\ itasks' = [itasks EXCEPT ![s] =
                     [t EXCEPT !.pc = "invalidate", !.result = updated,
                               !.item_in = item_in, !.events = <<"commit">>]]
       /\ UNCHANGED <<now, limiter_vars, cache, served, user_vars, origin>>

\* update_item up to db.refresh: 404, 403, or the fields supplied are set
\* and the row committed.
update_item(s, item_id, item_in, current_user) ==
    LET item == db_get(items, item_id)
        key == item_key(item_id)
        t == [IdleItemTask EXCEPT !.op = "update", !.item_id = item_id, !.key = key,
                                  !.user = current_user]
        updated == [item.row EXCEPT
                      !.title = IF item_in.title.some THEN item_in.title.v ELSE @,
                      !.description = IF item_in.description.some
                                      THEN item_in.description ELSE @]
    IN /\ CanStart(s)
       /\ IF ~item.present
          THEN /\ itasks' = [itasks EXCEPT ![s] =
                     [t EXCEPT !.pc = "done", !.events = <<"response">>,
                               !.response = [status |-> 404, body |-> NoRow]]]
               /\ UNCHANGED <<items, prewrite>>
          ELSE IF item.row.owner_id # current_user
          THEN /\ itasks' = [itasks EXCEPT ![s] =
                     [t EXCEPT !.pc = "done", !.events = <<"response">>,
                               !.response = [status |-> 403, body |-> NoRow]]]
               /\ UNCHANGED <<items, prewrite>>
          ELSE /\ items' = [items EXCEPT !.rows[item_id] = Present(updated)]
               /\ prewrite' = [prewrite EXCEPT ![item_id] =
                     [some |-> TRUE, body |-> item.row,
                      cached |-> cache.val[key].present, exp |-> cache.exp[key]]]
               /\ itasks' = [itasks EXCEPT ![s] =
                     [t EXCEPT !.pc = "invalidate", !.result = updated,
                               !.item_in = item_in, !.events = <<"commit">>]]
       /\ UNCHANGED <<now, limiter_vars, cache, served, user_vars, origin>>

\* Variant: the entry is left in the store.
update_item_invalidate_skipped(s) ==
    LET t == itasks[s]
    IN /\ ItemsReturned
       /\ t.pc = "invalidate"
       /\ t.op = "update"
       /\ itasks' = [itasks EXCEPT ![s] =
             [t EXCEPT !.pc = "done", !.events = @ \o <<"response">>,
                       !.item_in = IdleItemTask.item_in,
                       !.response = [status |-> 200, body |-> t.result]]]
       /\ UNCHANGED <<now, limiter_vars, items, cache, served, prewrite, user_vars, origin>>

\* update_item: await invalidate_cache(f"item:{item_id}"); return item
update_item_invalidate(s) ==
    LET t == itasks[s]
    IN /\ ItemsReturned
       /\ t.pc = "invalidate"
       /\ t.op = "update"
       /\ cache' = invalidate_cache(cache, item_key(t.item_id))
       /\ served' = [served EXCEPT ![t.item_id] = Nothing]
       /\ itasks' = [itasks EXCEPT ![s] =
             [t EXCEPT !.pc = "done", !.events = @ \o <<"invalidate", "response">>,
                       !.item_in = IdleItemTask.item_in,
                       !.response = [status |-> 200, body |-> t.result]]]
       /\ UNCHANGED <<now, limiter_vars, items, prewrite, user_vars, origin>>

\* Variant: the ownership of the item is not checked.
delete_item_any_owner(s, item_id, current_user) ==
    LET item == db_get(items, item_id)
        key == item_key(item_id)
        t == [IdleItemTask EXCEPT !.op = "delete", !.item_id = item_id, !.key = key,
                                  !.user = current_user]
    IN /\ CanStart(s)
       /\ IF ~item.present
          THEN /\ itasks' = [itasks EXCEPT ![s] =
                     [t EXCEPT !.pc = "done", !.events = <<"response">>,
                               !.response = [status |-> 404, body |-> NoRow]]]
               /\ UNCHANGED <<items, prewrite>>
          ELSE /\ items' = [items EXCEPT !.rows[item_id] = Absent]
               /\ prewrite' = [prewrite EXCEPT ![item_id] =
                     [some |-> TRUE, body |-> item.row,
                      cached |-> cache.val[key].present, exp |-> cache.exp[key]]]
               /\ itasks' = [itasks EXCEPT ![s] =
                     [t EXCEPT !.pc = "invalidate", !.events = <<"commit">>]]
       /\ UNCHANGED <<now, limiter_vars, cache, served, user_vars, origin>>

\* delete_item up to db.commit: 404, 403, or the row is deleted.
delete_item(s, item_id, current_user) ==
    LET item == db_get(items, item_id)
        key == item_key(item_id)
        t == [IdleItemTask EXCEPT !.op = "delete", !.item_id = item_id, !.key = key,
                                  !.user = current_user]
    IN /\ CanStart(s)
       /\ IF ~item.present
          THEN /\ itasks' = [itasks EXCEPT ![s] =
                     [t EXCEPT !.pc = "done", !.events = <<"response">>,
                               !.response = [status |-> 404, body |-> NoRow]]]
               /\ UNCHANGED <<items, prewrite>>
          ELSE IF item.row.owner_id # current_user
          THEN /\ itasks' = [itasks EXCEPT ![s] =
                     [t EXCEPT !.pc = "done", !.events = <<"response">>,
                               !.response = [status |-> 403, body |-> NoRow]]]
               /\ UNCHANGED <<items, prewrite>>
          ELSE /\ items' = [items EXCEPT !.rows[item_id] = Absent]
               /\ prewrite' = [prewrite EXCEPT ![item_id] =
                     [some |-> TRUE, body |-> item.row,
                      cached |-> cache.val[key].present, exp |-> cache.exp[key]]]
               /\ itasks' = [itasks EXCEPT ![s] =
                     [t EXCEPT !.pc = "invalidate", !.events = <<"commit">>]]
       /\ UNCHANGED <<now, limiter_vars, cache, served, user_vars, origin>>

\* Variant: the invalidation of a delete removes the entries of all items.
delete_item_invalidate_all(s) ==
    LET t == itasks[s]
    IN /\ ItemsReturned
       /\ t.pc = "invalidate"
       /\ t.op = "delete"
       /\ cache' = delete_cache_all(cache, item_key(t.item_id)).db
       /\ served' = [served EXCEPT ![t.item_id] = Nothing]
       /\ itasks' = [itasks EXCEPT ![s] =
             [t EXCEPT !.pc = "done", !.events = @ \o <<"invalidate", "response">>,
                       !.response = [status |-> 204, body |-> NoRow]]]
       /\ UNCHANGED <<now, limiter_vars, items, prewrite, user_vars, origin>>

\* delete_item: await invalidate_cache(f"item:{item_id}"); 204
delete_item_invalidate(s) ==
    LET t == itasks[s]
    IN /\ ItemsReturned
       /\ t.pc = "invalidate"
       /\ t.op = "delete"
       /\ cache' = invalidate_cache(cache, item_key(t.item_id))
       /\ served' = [served EXCEPT ![t.item_id] = Nothing]
       /\ itasks' = [itasks EXCEPT ![s] =
             [t EXCEPT !.pc = "done", !.events = @ \o <<"invalidate", "response">>,
                       !.response = [status |-> 204, body |-> NoRow]]]
       /\ UNCHANGED <<now, limiter_vars, items, prewrite, user_vars, origin>>

\* The response is returned.
item_finish(s) ==
    /\ itasks[s].pc = "done"
    /\ itasks' = [itasks EXCEPT ![s] = IdleItemTask]
    /\ UNCHANGED <<now, limiter_vars, items, cache, served, prewrite, user_vars, origin>>

\* Half a time-to-live passes; the store drops the keys that have run out.
TickItems ==
    /\ ItemsReturned
    /\ now < MaxClockSteps * ClockStep
    /\ now' = now + ClockStep
    /\ cache' = expire_items(cache, now + ClockStep)
    /\ served' = [i \in ItemIds |->
          IF expire_items(cache, now + ClockStep).val[item_key(i)].present
          THEN served[i] ELSE Nothing]
    /\ UNCHANGED <<limiter_vars, items, prewrite, itasks, user_vars, origin>>

\* The steps of the item requests in flight, and the clock.
ItemSteps ==
    \/ \E s \in Slots : get_item(s)
    \/ \E s \in Slots : cache_store(s)
    \/ \E s \in Slots : update_item_invalidate(s)
    \/ \E s \in Slots : delete_item_invalidate(s)
    \/ \E s \in Slots : item_finish(s)
    \/ TickItems

\* Item requests handled one at a time.
NextItems ==
    \/ \E s \in Slots, item_in \in ItemCreate, u \in Users :
          OneAtATime /\ create_item(s, item_in, u)
    \/ \E s \in Slots, i \in ItemIds : OneAtATime /\ cache_lookup(s, i)
    \/ \E s \in Slots, i \in ItemIds, item_in \in ItemUpdate, u \in Users :
          OneAtATime /\ update_item(s, i, item_in, u)
    \/ \E s \in Slots, i \in ItemIds, u \in Users : OneAtATime /\ delete_item(s, i, u)
    \/ ItemSteps

SpecItems == Init /\ [][NextItems]_vars

\* Item requests handled concurrently: a request may arrive while others are
\* in flight, and the tasks take their steps in any order.
NextItemsConc ==
    \/ \E s \in Slots, item_in \in ItemCreate, u \in Users : create_item(s, item_in, u)
    \/ \E s \in Slots, i \in ItemIds : cache_lookup(s, i)
    \/ \E s \in Slots, i \in ItemIds, item_in \in ItemUpdate, u \in Users :
          update_item(s, i, item_in, u)
    \/ \E s \in Slots, i \in ItemIds, u \in Users : delete_item(s, i, u)
    \/ ItemSteps

SpecItemsConc == Init /\ [][NextItemsConc]_vars

\* ------------------------------------------------------------------ two items
\* Requests on a table in which the items 1 and 2 have been created (by
\* user 1), handled one at a time.
TwoItems ==
    [rows |-> [i \in ItemIds |->
                 IF i <= 2
                 THEN Present([id |-> i, title |-> "t1", description |-> None,
                               owner_id |-> 1])
                 ELSE Absent],
     last_id |-> 2]

InitPair ==
    /\ now = 0
    /\ settings = [RATE_LIMIT_ENABLED |-> TRUE,
                   RATE_LIMIT_REQUESTS |-> RATE_LIMIT_REQUESTS,
                   RATE_LIMIT_WINDOW |-> RATE_LIMIT_WINDOW]
    /\ mw = middleware_init(settings)
    /\ redis = EmptyStore
    /\ shadow = [c \in RLKeys |-> EmptyStore]
    /\ batch = [c \in RLKeys |-> NoBatch]
    /\ overlapped = [c \in RLKeys |-> FALSE]
    /\ held = [c \in RLKeys |-> NoTime]
    /\ errors = 0
    /\ tasks = [s \in Slots |-> IdleTask]
    /\ items = TwoItems
    /\ cache = EmptyCache
    /\ served = [i \in ItemIds |-> Nothing]
    /\ prewrite = [i \in ItemIds |-> NoWrite]
    /\ itasks = [s \in Slots |-> IdleItemTask]
    /\ users = EmptyUsers
    /\ utasks = [s \in Slots |-> IdleUserTask]
    /\ origin = NoOrigin

NextPair ==
    \/ \E s \in Slots, i \in ItemIds : OneAtATime /\ cache_lookup(s, i)
    \/ \E s \in Slots, i \in ItemIds, item_in \in ItemUpdate, u \in Users :
          OneAtATime /\ update_item(s, i, item_in, u)
    \/ \E s \in Slots, i \in ItemIds, u \in Users : OneAtATime /\ delete_item(s, i, u)
    \/ ItemSteps

SpecItemsPair == InitPair /\ [][NextPair]_vars

\* ------------------------------------------------------------------ registration
\* No register call has a response to return.
UsersReturned == \A s \in Slots : utasks[s].pc # "done"

\* Variant: the username is not looked up.
register_unchecked(s, user) ==
    /\ UsersReturned
    /\ utasks[s].pc = "idle"
    /\ utasks' = [utasks EXCEPT ![s] =
          [IdleUserTask EXCEPT
             !.pc = "email", !.user = user,
             !.taken = [username |-> first_by_username(users, user.username).present,
                        email |-> first_by_email(users, user.email).present]]]
    /\ UNCHANGED <<now, limiter_vars, item_vars, users, origin>>

\* register: the username is looked up; 400 if a row has it.
register(s, user) ==
    LET db_user == first_by_username(users, user.username)
        t == [IdleUserTask EXCEPT
                !.user = user,
                !.taken = [username |-> db_user.present,
                           email |-> first_by_email(users, user.email).present]]
    IN /\ UsersReturned
       /\ utasks[s].pc = "idle"
       /\ utasks' = [utasks EXCEPT ![s] =
             IF db_user.present
             THEN [t EXCEPT !.pc = "done",
                            !.response = [status |-> 400,
                                          detail |-> "Username already registered",
                                          body |-> NoUser]]
             ELSE [t EXCEPT !.pc = "email"]]
       /\ UNCHANGED <<now, limiter_vars, item_vars, users, origin>>

\* register: the email is looked up; 400 if a row has it.
register_email(s) ==
    LET t == utasks[s]
        db_user == first_by_email(users, t.user.email)
    IN /\ UsersReturned
       /\ t.pc = "email"
       /\ utasks' = [utasks EXCEPT ![s] =
             IF db_user.present
             THEN [t EXCEPT !.pc = "done",
                            !.response = [status |-> 400,
                                          detail |-> "Email already registered",
                                          body |-> NoUser]]
             ELSE [t EXCEPT !.pc = "commit"]]
       /\ UNCHANGED <<now, limiter_vars, item_vars, users, origin>>

\* register: User(email, username, hashed_password, is_active=True) is added
\* and committed; the row is returned, or the commit raises (500).
register_commit(s) ==
    LET t == utasks[s]
        db_user == [NoUser EXCEPT
                      !.email = t.user.email, !.username = t.user.username,
                      !.hashed_password = get_password_hash(t.user.password),
                      !.is_active = TRUE]
        r == insert_user(users, db_user)
    IN /\ UsersReturned
       /\ t.pc = "commit"
       /\ users' = r.tab
       /\ utasks' = [utasks EXCEPT ![s] =
             IF r.ok
             THEN [t EXCEPT !.pc = "done",
                            !.response = [status |-> 200, detail |-> "", body |-> r.row]]
             ELSE [t EXCEPT !.pc = "done",
                            !.response = [status |-> 500, detail |-> "", body |-> NoUser]]]
       /\ UNCHANGED <<now, limiter_vars, item_vars, origin>>

\* The response is returned.
user_finish(s) ==
    /\ utasks[s].pc = "done"
    /\ utasks' = [utasks EXCEPT ![s] = IdleUserTask]
    /\ UNCHANGED <<now, limiter_vars, item_vars, users, origin>>

\* Register calls, any number of them in flight, on a table that holds the
\* users stored before.
InitUsers ==
    /\ now = 0
    /\ settings = [RATE_LIMIT_ENABLED |-> TRUE,
                   RATE_LIMIT_REQUESTS |-> RATE_LIMIT_REQUESTS,
                   RATE_LIMIT_WINDOW |-> RATE_LIMIT_WINDOW]
    /\ mw = middleware_init(settings)
    /\ redis = EmptyStore
    /\ shadow = [c \in RLKeys |-> EmptyStore]
    /\ batch = [c \in RLKeys |-> NoBatch]
    /\ overlapped = [c \in RLKeys |-> FALSE]
    /\ held = [c \in RLKeys |-> NoTime]
    /\ errors = 0
    /\ tasks = [s \in Slots |-> IdleTask]
    /\ items = EmptyTable
    /\ cache = EmptyCache
    /\ served = [i \in ItemIds |-> Nothing]
    /\ prewrite = [i \in ItemIds |-> NoWrite]
    /\ itasks = [s \in Slots |-> IdleItemTask]
    /\ users \in StoredUsers
    /\ utasks = [s \in Slots |-> IdleUserTask]
    /\ origin = NoOrigin

NextUsers ==
    \/ \E s \in Slots, user \in UserCreate : register(s, user)
    \/ \E s \in Slots : register_email(s)
    \/ \E s \in Slots : register_commit(s)
    \/ \E s \in Slots : user_finish(s)

SpecUsers == InitUsers /\ [][NextUsers]_vars

\* ------------------------------------------------------------------ store errors
\* The store raises during the lookup: get_cache_value raises RedisError,
\* the entry is not read and the request goes on to get_item.
cache_lookup_error(s, item_id) ==
    /\ CanStart(s)
    /\ itasks' = [itasks EXCEPT ![s] =
          [IdleItemTask EXCEPT !.pc = "load", !.op = "get", !.item_id = item_id,
                               !.key = item_key(item_id), !.faults = 1]]
    /\ prewrite' = [prewrite EXCEPT ![item_id] = NoWrite]
    /\ UNCHANGED <<now, limiter_vars, items, cache, served, user_vars, origin>>

\* Variant: the RedisError of set_cache reaches the client as a 500.
cache_store_error_raised(s) ==
    LET t == itasks[s]
    IN /\ ItemsReturned
       /\ t.pc = "store"
       /\ itasks' = [itasks EXCEPT ![s] =
             [t EXCEPT !.pc = "done", !.loaded_at = NoTime, !.faults = @ + 1,
                       !.response = [status |-> 500, body |-> NoRow]]]
       /\ UNCHANGED <<now, limiter_vars, items, cache, served, prewrite, user_vars, origin>>

\* The store raises during the store: set_cache raises RedisError, nothing
\* is written and the item that get_item loaded is returned.
cache_store_error(s) ==
    LET t == itasks[s]
    IN /\ ItemsReturned
       /\ t.pc = "store"
       /\ itasks' = [itasks EXCEPT ![s] =
             [t EXCEPT !.pc = "done", !.loaded_at = NoTime, !.faults = @ + 1,
                       !.response = [status |-> 200, body |-> t.result]]]
       /\ UNCHANGED <<now, limiter_vars, items, cache, served, prewrite, user_vars, origin>>

\* Item requests handled one at a time, with a store that may fail.
NextItemsFaulty ==
    \/ NextItems
    \/ \E s \in Slots, i \in ItemIds : OneAtATime /\ cache_lookup_error(s, i)
    \/ \E s \in Slots : cache_store_error(s)

SpecItemsFaulty == Init /\ [][NextItemsFaulty]_vars

\* Variant: the invalidation that failed is made again and succeeds.
update_item_invalidate_error_retried(s) ==
    LET t == itasks[s]
    IN /\ ItemsReturned
       /\ t.pc = "invalidate"
       /\ t.op = "update"
       /\ cache' = invalidate_cache(cache, item_key(t.item_id))
       /\ itasks' = [itasks EXCEPT ![s] =
             [t EXCEPT !.pc = "done", !.events = @ \o <<"error", "response">>,
                       !.item_in = IdleItemTask.item_in, !.faults = @ + 1,
                       !.response = [status |-> 500, body |-> NoRow]]]
       /\ UNCHANGED <<now, limiter_vars, items, served, prewrite, user_vars, origin>>

\* update_item, the store raises during the invalidation: delete_cache
\* re-raises RedisError, update_item has no handler, the request fails
\* after its commit.
update_item_invalidate_error(s) ==
    LET t == itasks[s]
    IN /\ ItemsReturned
       /\ t.pc = "invalidate"
       /\ t.op = "update"
       /\ itasks' = [itasks EXCEPT ![s] =
             [t EXCEPT !.pc = "done", !.events = @ \o <<"error", "response">>,
                       !.item_in = IdleItemTask.item_in, !.faults = @ + 1,
                       !.response = [status |-> 500, body |-> NoRow]]]
       /\ UNCHANGED <<now, limiter_vars, items, cache, served, prewrite, user_vars, origin>>

\* delete_item, the store raises during the invalidation.
delete_item_invalidate_error(s) ==
    LET t == itasks[s]
    IN /\ ItemsReturned
       /\ t.pc = "invalidate"
       /\ t.op = "delete"
       /\ itasks' = [itasks EXCEPT ![s] =
             [t EXCEPT !.pc = "done", !.events = @ \o <<"error", "response">>,
                       !.faults = @ + 1,
                       !.response = [status |-> 500, body |-> NoRow]]]
       /\ UNCHANGED <<now, limiter_vars, items, cache, served, prewrite, user_vars, origin>>

\* Item requests handled one at a time, with a store that may fail in the
\* reads and in the invalidations.
NextItemsInvalidation ==
    \/ NextItemsFaulty
    \/ \E s \in Slots : update_item_invalidate_error(s)
    \/ \E s \in Slots : delete_item_invalidate_error(s)

SpecItemsInvalidation == Init /\ [][NextItemsInvalidation]_vars

\* ------------------------------------------------------------------ client keys
\* __call__: client_id = await self.get_client_identifier(request), for two
\* requests side by side.
Pair == {1, 2}
identify(s, request) ==
    /\ Free(s)
    /\ tasks' = [tasks EXCEPT ![s] =
          [IdleTask EXCEPT !.pc = "identified", !.request = request,
                           !.client_id = get_client_identifier(request)]]
    /\ UNCHANGED <<now, settings, mw, redis, shadow, batch, overlapped, errors, held, item_vars, user_vars, origin>>

NextKeys == \E s \in Pair, request \in KeyRequests : identify(s, request)

SpecKeys == Init /\ [][NextKeys]_vars

\* ------------------------------------------------------------------ cache helpers
\* The helpers of app/core/cache called on their own, on any key and value;
\* the result of a call is returned before the next call.
\* served follows the value last set under each key and not deleted since.
KeyId(key) == CHOOSE i \in ItemIds : item_key(i) = key

cache_set(key, value) ==
    /\ ItemsReturned
    /\ cache' = set_cache(cache, key, value, ITEM_CACHE_EXPIRE, now)
    /\ served' = [served EXCEPT ![KeyId(key)] = [some |-> TRUE, v |-> value]]
    /\ itasks' = [itasks EXCEPT ![1] =
          [IdleItemTask EXCEPT !.pc = "done", !.op = "set_cache", !.key = key,
                               !.result = value]]
    /\ UNCHANGED <<now, limiter_vars, items, prewrite, user_vars, origin>>

cache_get(key) ==
    /\ ItemsReturned
    /\ itasks' = [itasks EXCEPT ![1] =
          [IdleItemTask EXCEPT !.pc = "done", !.op = "get_cache_value", !.key = key,
                               !.hit = get_cache_value(cache, key).some,
                               !.result = get_cache_value(cache, key).v]]
    /\ UNCHANGED <<now, limiter_vars, items, cache, served, prewrite, user_vars, origin>>

cache_delete(key) ==
    /\ ItemsReturned
    /\ cache' = delete_cache(cache, key).db
    /\ itasks' = [itasks EXCEPT ![1] =
          [IdleItemTask EXCEPT !.pc = "done", !.op = "delete_cache", !.key = key,
                               !.deleted = delete_cache(cache, key).deleted]]
    /\ served' = [served EXCEPT ![KeyId(key)] = Nothing]
    /\ UNCHANGED <<now, limiter_vars, items, prewrite, user_vars, origin>>

NextCache ==
    \/ \E k \in ItemKeys, v \in Rows \cup JsonScalars : cache_set(k, v)
    \/ \E k \in ItemKeys : cache_delete(k)
    \/ \E k \in ItemKeys : cache_get(k)
    \/ item_finish(1)

SpecCache == Init /\ [][NextCache]_vars

\* ------------------------------------------------------------------ properties
Limit == mw.rate_limit_requests
Window == mw.rate_limit_window

\* The key's entry is what `entry` was, up to the store's own expiry of it.
SameUpToExpiry(key, entry) ==
    \/ Entry(redis, key) = entry
    \/ /\ Entry(redis, key) = NoEntry
       /\ entry.exp # NoExpiry
       /\ entry.exp <= now

\* C1: sliding-window correctness. Of N+1 consecutive error-free requests of
\* one client that start on an empty window and all fall inside one window,
\* request k <= N is admitted with remaining N - k and request N+1 is
\* rejected with status 429 (requests answered inside that window).
C1_SlidingWindow ==
    \A s \in Slots :
       LET t == tasks[s]
       IN (/\ t.pc = "done" /\ t.limited /\ t.clean /\ t.err = "none"
           /\ t.k >= 1 /\ t.k <= Limit + 1
           /\ t.current_time < t.first_t + Window
           /\ now < t.first_t + Window)
          => IF t.k <= Limit
             THEN /\ t.is_allowed
                  /\ t.remaining = Limit - t.k
                  /\ t.response.status # 429
             ELSE /\ ~t.is_allowed
                  /\ t.response.status = 429

\* C2 as claimed: a request evaluated at a store time at least one window
\* after the client's oldest stored marker is admitted.
C2_WindowRecovery ==
    \A s \in Slots :
       LET t == tasks[s]
       IN (/\ t.pc = "done" /\ t.limited
           /\ t.oldest # NoTime
           /\ t.current_time >= t.oldest + Window)
          => /\ t.is_allowed
             /\ t.response.status # 429

\* C2 as amended: the same, for a client none of whose checks have been in
\* flight at the same time.
C2_WindowRecoverySequential ==
    \A s \in Slots :
       LET t == tasks[s]
       IN (/\ t.pc = "done" /\ t.limited
           /\ ~overlapped[t.client_id]
           /\ t.oldest # NoTime
           /\ t.current_time >= t.oldest + Window)
          => /\ t.is_allowed
             /\ t.response.status # 429

\* A request of a client with no overlapping checks is admitted a window
\* after its oldest marker, with a younger marker still counted.
C2_Witness ==
    \E s \in Slots :
       LET t == tasks[s]
       IN /\ t.pc = "done" /\ t.limited /\ t.err = "none"
          /\ ~overlapped[t.client_id]
          /\ t.oldest # NoTime
          /\ t.current_time >= t.oldest + Window
          /\ t.request_count >= 1
          /\ t.is_allowed

\* C3: per-client isolation. The entry of every client key (markers and
\* expiry) is the one it has in the run in which only that client sent
\* requests, and so are the count, the decision and the remaining value of
\* each of its requests.
C3_Isolation ==
    /\ \A c \in RLKeys :
          /\ Entry(redis, c) = Entry(shadow[c], c)
          /\ \A k \in RLKeys \ {c} : Entry(shadow[c], k) = NoEntry
    /\ \A s \in Slots :
          LET t == tasks[s]
          IN (t.limited /\ t.pc \in {"zadd", "expire", "reject", "call_next", "done"})
             => /\ (t.err = "none" => t.request_count = t.g_count)
                /\ t.is_allowed = t.g_allowed
                /\ t.remaining = t.g_remaining

\* One client's quota is used up while another client is admitted with its
\* full quota.
C3_Witness ==
    \E s \in Slots :
       LET t == tasks[s]
       IN /\ t.pc = "done" /\ t.limited /\ t.err = "none"
          /\ t.is_allowed /\ t.remaining = Limit - 1
          /\ \E a \in RLKeys \ {t.client_id} : zcard(redis, a) >= Limit

\* C4: fail-open. A request whose check met a store error at any step is
\* allowed with remaining = max_requests, goes to the downstream handler
\* once and is answered by it, never with 429.
C4_FailOpen ==
    \A s \in Slots :
       LET t == tasks[s]
       IN t.err # "none"
          => /\ t.err \in StoreSteps
             /\ t.is_allowed
             /\ t.remaining = Limit
             /\ t.pc \in {"call_next", "done"}
             /\ t.pc = "done"
                => /\ t.next_calls = 1
                   /\ t.response.status \in DownstreamStatuses
                   /\ t.response.status # 429
                   /\ int(t.response.headers.remaining) = Limit

\* A request whose expire step raised has been answered by the downstream
\* handler.
C4_Witness ==
    \E s \in Slots :
       LET t == tasks[s]
       IN /\ t.pc = "done" /\ t.err = "expire"
          /\ t.response.status = 200

\* C5: a rejected request is not recorded. It saw a count >= max_requests,
\* its result is (false, 0), it issued no insert and no expire, and the
\* client's entry is the one the purge step left.
C5_RejectNotRecorded ==
    \A s \in Slots :
       LET t == tasks[s]
       IN (t.pc \in {"reject", "done"} /\ t.limited /\ ~t.is_allowed)
          => /\ t.request_count >= Limit
             /\ t.remaining = 0
             /\ t.ops = <<"time", "zremrangebyscore", "zcard">>
             /\ SameUpToExpiry(t.client_id, t.after_purge)

\* A request is rejected in a second in which the client has no marker yet.
C5_Witness ==
    \E s \in Slots :
       LET t == tasks[s]
       IN /\ t.pc = "done" /\ t.limited /\ ~t.is_allowed
          /\ \A e \in redis.z[t.client_id] : e.score # t.current_time
          /\ zcard(redis, t.client_id) >= Limit

\* C6: with the limiter enabled every response carries the limit, the
\* window length and a remaining value in 0..max_requests, which is 0 on a
\* rejected response.
C6_Headers ==
    \A s \in Slots :
       LET t == tasks[s]
           h == t.response.headers
       IN (t.pc = "done" /\ t.limited)
          => /\ h.present
             /\ int(h.limit) = Limit
             /\ int(h.reset) = Window
             /\ int(h.remaining) \in 0..Limit
             /\ int(h.remaining) = t.remaining
             /\ t.response.status = 429 => int(h.remaining) = 0

\* A rejected response, later than the first second of the run.
C6_Witness ==
    /\ now > 0
    /\ \E s \in Slots :
          LET t == tasks[s]
          IN /\ t.pc = "done" /\ t.limited
             /\ t.response.status = 429

\* C7: a rejected request is answered with 429 and the fixed detail and the
\* downstream handler is not invoked for it; the downstream handler is
\* invoked exactly once for an admitted request.
C7_RejectResponse ==
    \A s \in Slots :
       LET t == tasks[s]
       IN /\ (t.limited /\ t.pc = "reject") => t.next_calls = 0
          /\ (t.limited /\ t.pc = "done" /\ ~t.is_allowed)
             => /\ t.response.status = 429
                /\ t.response.body = DETAIL
                /\ t.next_calls = 0
          /\ (t.limited /\ t.pc = "done" /\ t.is_allowed)
             => /\ t.next_calls = 1
                /\ t.response.status \in DownstreamStatuses

\* A request has been rejected.
C7_Witness ==
    \E s \in Slots :
       LET t == tasks[s]
       IN /\ t.pc = "done" /\ t.limited /\ ~t.is_allowed
          /\ t.response.body = DETAIL

\* C8: bypass. A request dispatched while RATE_LIMIT_ENABLED is false takes
\* the bypass path at once, issues no store operation, leaves the store as
\* it is, goes to the downstream handler and gets no rate-limit header and
\* no 429.
C8_BypassState ==
    \A s \in Slots :
       LET t == tasks[s]
       IN (~t.limited /\ t.pc \in {"bypass", "done"})
          => /\ t.ops = <<>>
             /\ t.pc = "done"
                => /\ t.next_calls = 1
                   /\ t.response.headers = NoHeaders
                   /\ t.response.status \in DownstreamStatuses
                   /\ t.response.status # 429

C8_BypassStep ==
    \A s \in Slots :
       /\ (tasks[s].pc = "idle" /\ tasks'[s].pc # "idle"
             /\ ~settings.RATE_LIMIT_ENABLED)
          => (tasks'[s].pc = "bypass" /\ redis' = redis)
       /\ (tasks[s].pc = "bypass" /\ tasks'[s].pc # "bypass")
          => (tasks'[s].pc = "done" /\ redis' = redis)

C8_Bypass == [](C8_BypassState) /\ [][C8_BypassStep]_vars

\* A request is bypassed while its client's quota is used up.
C8_Witness ==
    \E s \in Slots :
       LET t == tasks[s]
       IN /\ t.pc = "done" /\ ~t.limited
          /\ \E c \in RLKeys : zcard(redis, c) >= Limit

\* ------------------------------------------------------------------ item cache properties
ItemDone(s, op) == itasks[s].pc = "done" /\ itasks[s].op = op

\* C9 - Cache hit/miss. An entry of the cache exists exactly while a read
\* has filled it and no expiry or invalidation has removed it since. A
\* get_item of an existing item that finds no entry loads the item from the
\* database exactly once, returns it, and leaves its encoding under the key
\* of the item with the fixed time-to-live. A get_item that finds the entry
\* returns the value the filling read returned and loads nothing.
C9_CacheHitMiss ==
    /\ \A i \in ItemIds : served[i].some <=> cache.val[item_key(i)].present
    /\ \A s \in Slots :
          ItemDone(s, "get") =>
             LET t == itasks[s]
             IN /\ t.expect.some =>
                      /\ t.response.status = 200
                      /\ t.response.body = t.expect.v
                      /\ t.loads = 0
                /\ (~t.expect.some /\ db_get(items, t.item_id).present) =>
                      /\ t.loads = 1
                      /\ t.response.status = 200
                      /\ t.response.body = db_get(items, t.item_id).row
                      /\ CacheEntry(cache, item_key(t.item_id)) =
                            [val |-> [present |-> TRUE,
                                      doc |-> json_dumps(t.response.body)],
                             exp |-> t.stored_at + ITEM_CACHE_EXPIRE]
                      /\ t.stored_at = now

\* A second get_item of an item has returned the value of the first from
\* the cache.
C9_Witness ==
    \E s \in Slots :
       /\ ItemDone(s, "get")
       /\ itasks[s].hit
       /\ itasks[s].expect.some
       /\ itasks[s].response.body = itasks[s].expect.v
       /\ itasks[s].response.body.description.some

\* C10 - Invalidation on write, requests handled one at a time. When
\* update_item or delete_item of an item returns successfully the cache has
\* no entry under "item:" + id; the next get_item of the item is not served
\* from the cache and returns the committed row, or 404 if there is none.
C10_InvalidationOnWrite ==
    \A s \in Slots :
       LET t == itasks[s]
       IN /\ ((ItemDone(s, "update") /\ t.response.status = 200)
                 \/ (ItemDone(s, "delete") /\ t.response.status = 204)) =>
                /\ t.key = item_key(t.item_id)
                /\ t.key = <<"item:">> \o str(t.item_id)
                /\ CacheEntry(cache, t.key) = NoCacheEntry
          /\ (ItemDone(s, "get") /\ t.prior.some) =>
                /\ ~t.hit
                /\ t.loads = 1
                /\ IF db_get(items, t.item_id).present
                   THEN /\ t.response.status = 200
                        /\ t.response.body = db_get(items, t.item_id).row
                   ELSE t.response.status = 404

\* The get_item after an update of a cached item has returned the new row,
\* which differs from the row that was cached before the update.
C10_Witness ==
    \E s \in Slots :
       /\ ItemDone(s, "get")
       /\ itasks[s].prior.some
       /\ itasks[s].prior.cached
       /\ itasks[s].response.status = 200
       /\ itasks[s].response.body # itasks[s].prior.body

\* C11 - Write-path ordering. update_item and delete_item commit first: while
\* the invalidation is pending the row is committed and the entry of the
\* item is still what it was. A success response follows the commit and the
\* invalidation, in this order; a 403 or 404 response follows neither.
C11_WritePathOrder ==
    \A s \in Slots :
       LET t == itasks[s]
       IN t.op \in {"update", "delete"} =>
             /\ t.pc = "invalidate" =>
                   /\ t.events = <<"commit">>
                   /\ db_get(items, t.item_id) =
                         (IF t.op = "update" THEN Present(t.result) ELSE Absent)
                   /\ cache.val[t.key].present =
                         (prewrite[t.item_id].cached /\ prewrite[t.item_id].exp > now)
             /\ (t.pc = "done" /\ t.response.status \in {200, 204}) =>
                   /\ t.events = <<"commit", "invalidate", "response">>
                   /\ ~cache.val[t.key].present
             /\ (t.pc = "done" /\ t.response.status \notin {200, 204}) =>
                   t.events = <<"response">>

\* An update of an item that had an entry has committed, invalidated and
\* responded.
C11_Witness ==
    \E s \in Slots :
       /\ ItemDone(s, "update")
       /\ itasks[s].response.status = 200
       /\ itasks[s].events = <<"commit", "invalidate", "response">>
       /\ prewrite[itasks[s].item_id].cached

\* C12 - No stale hit. A get_item answered from the cache returns the row
\* that is committed at the instant of the hit.
C12_NoStaleHit ==
    \A s \in Slots :
       (ItemDone(s, "get") /\ itasks[s].hit) =>
          db_get(items, itasks[s].item_id) = Present(itasks[s].response.body)

\* C13 - No stale repopulation. When every reader has finished and every
\* writer has returned, an entry of the cache holds the committed row of
\* its item.
C13_NoStaleRepopulation ==
    OneAtATime =>
       \A i \in ItemIds :
          cache.val[item_key(i)].present =>
             db_get(items, i) = Present(json_loads(cache.val[item_key(i)].doc))

\* C14 - Not-found is never cached. No entry of the cache represents
\* absence: every entry decodes to a row. A get_item that finds no row
\* answers 404 after querying the database and stores nothing, and no
\* get_item of an identifier without a row is answered from the cache.
C14_NotFoundNeverCached ==
    /\ \A k \in ItemKeys :
          cache.val[k].present => json_loads(cache.val[k].doc) \in Rows
    /\ \A s \in Slots :
          LET t == itasks[s]
          IN ItemDone(s, "get") =>
                /\ t.response.status = 404 =>
                      /\ t.loads = 1
                      /\ ~t.hit
                      /\ t.stored_at = NoTime
                /\ t.hit => db_get(items, t.item_id).present

\* C15 - Invalidate is unconditional and idempotent. delete_cache(key)
\* leaves the key absent, returns whether the key was present (False, and no
\* error, for an absent key), changes no other key, and a second
\* delete_cache(key) changes nothing and returns False.
C15_DeleteStep ==
    \A k \in ItemKeys :
       cache_delete(k) =>
          /\ ~cache'.val[k].present
          /\ cache'.exp[k] = NoExpiry
          /\ itasks'[1].deleted = cache.val[k].present
          /\ \A j \in ItemKeys \ {k} : CacheEntry(cache', j) = CacheEntry(cache, j)
          /\ delete_cache(cache', k) = [db |-> cache', deleted |-> FALSE]
C15_DeleteIdempotent == [][C15_DeleteStep]_vars

\* delete_cache has removed a key that was present while another key holds
\* an entry.
C15_Witness ==
    /\ itasks[1].op = "delete_cache"
    /\ itasks[1].deleted
    /\ \E j \in ItemKeys \ {itasks[1].key} : cache.val[j].present

\* C16 - TTL bound. Every entry of the item cache has an expiry, and its
\* remaining time-to-live is more than 0 and at most 300 seconds; the entry
\* a get_item miss has just created has the full 300 seconds.
C16_TtlBound ==
    /\ \A k \in ItemKeys :
          cache.val[k].present =>
             /\ cache.exp[k] # NoExpiry
             /\ cache.exp[k] - now > 0
             /\ cache.exp[k] - now <= ITEM_CACHE_EXPIRE
    /\ \A k \in ItemKeys : ~cache.val[k].present => cache.exp[k] = NoExpiry
    /\ \A s \in Slots :
          (ItemDone(s, "get") /\ itasks[s].stored_at # NoTime) =>
             /\ cache.val[itasks[s].key].present
             /\ cache.exp[itasks[s].key] - now = ITEM_CACHE_EXPIRE

\* A get_item miss has created an entry, at a time other than the start.
C16_Witness ==
    \E s \in Slots :
       /\ ItemDone(s, "get")
       /\ itasks[s].stored_at = now
       /\ now > 0
       /\ cache.exp[itasks[s].key] = now + ITEM_CACHE_EXPIRE

\* C17 - Check order on mutation. The first step of an update_item or a
\* delete_item answers 404 when the item is missing, whoever the actor is,
\* and 403 when the item exists and its owner_id differs from the actor; in
\* both cases the item table and the cache are left as they were and the
\* request has neither committed nor invalidated. Only the owner of an
\* existing item gets to the commit.
C17_Step ==
    \A s \in Slots :
       (itasks[s].pc = "idle" /\ itasks'[s].op \in {"update", "delete"}) =>
          LET t == itasks'[s]
              item == db_get(items, t.item_id)
              rejected == /\ t.pc = "done"
                          /\ t.events = <<"response">>
                          /\ items' = items
                          /\ cache' = cache
          IN IF ~item.present
             THEN rejected /\ t.response.status = 404
             ELSE IF item.row.owner_id # t.user
             THEN rejected /\ t.response.status = 403
             ELSE t.pc = "invalidate" /\ t.events = <<"commit">>
C17_CheckOrder == [][C17_Step]_vars

\* A 403 for an item that exists, is owned by someone else and has a cache
\* entry.
C17_Witness ==
    \E s \in Slots :
       /\ itasks[s].pc = "done"
       /\ itasks[s].op \in {"update", "delete"}
       /\ itasks[s].response.status = 403
       /\ cache.val[itasks[s].key].present
       /\ db_get(items, itasks[s].item_id).present
       /\ db_get(items, itasks[s].item_id).row.owner_id # itasks[s].user

\* C18 - Cache failure never blocks a read. A get_item during which the
\* store raised, in the lookup, in the store or in both, and whose item is in
\* the database, answers 200 with the row loaded from the database.
C18_CacheFailureReadThrough ==
    \A s \in Slots :
       (/\ ItemDone(s, "get")
        /\ itasks[s].faults > 0
        /\ db_get(items, itasks[s].item_id).present) =>
          /\ itasks[s].response.status = 200
          /\ itasks[s].response.body = db_get(items, itasks[s].item_id).row
          /\ itasks[s].loads = 1
          /\ ~itasks[s].hit

\* A read of an existing item answered after the store raised in the store
\* step, the entry of the item being absent.
C18_Witness ==
    \E s \in Slots :
       /\ ItemDone(s, "get")
       /\ itasks[s].faults > 0
       /\ itasks[s].stored_at = NoTime
       /\ db_get(items, itasks[s].item_id).present
       /\ itasks[s].response.status = 200
       /\ ~cache.val[itasks[s].key].present

\* C19 - Non-atomic admission race. A client key holds more markers than
\* max_requests only after two of its checks have been in flight at once:
\* checks that do not overlap never admit more than max_requests requests
\* into one window, and overlapping ones can (the witness).
C19_OverAdmissionOnlyByRace ==
    \A c \in RLKeys : zcard(redis, c) > Limit => overlapped[c]

\* Two overlapping checks of one client were both admitted on a count below
\* max_requests: the one returning counted at least two markers fewer than
\* the key now holds, and the key holds more than max_requests markers, all
\* of them within one window.
C19_Witness ==
    \E s \in Slots :
       LET t == tasks[s]
           c == t.client_id
       IN /\ t.pc = "done" /\ t.limited /\ t.err = "none"
          /\ t.is_allowed
          /\ t.request_count < Limit
          /\ overlapped[c]
          /\ zcard(redis, c) > Limit
          /\ zcard(redis, c) >= t.request_count + 2
          /\ \A e1, e2 \in redis.z[c] : e1.score - e2.score < Window
          /\ \A e \in redis.z[c] : e.score > now - Window

\* C20 - Marker window invariant. When a check is about to count, at the
\* store time it has read (current_time), every marker of its client has a
\* timestamp above current_time - window and at most current_time.
C20_MarkerWindow ==
    \A s \in Slots :
       LET t == tasks[s]
       IN t.pc = "zcard" =>
             \A e \in redis.z[t.client_id] :
                /\ t.current_time - Window < e.score
                /\ e.score <= t.current_time

\* C20 as amended: the same, for a client none of whose checks have been in
\* flight at the same time.
C20_MarkerWindowSequential ==
    \A s \in Slots :
       LET t == tasks[s]
       IN (t.pc = "zcard" /\ ~overlapped[t.client_id]) =>
             \A e \in redis.z[t.client_id] :
                /\ t.current_time - Window < e.score
                /\ e.score <= t.current_time

\* A check of a client with no overlapping checks is about to count: its
\* purge has removed a marker a window old or older and left a younger one.
C20_Witness ==
    \E s \in Slots :
       LET t == tasks[s]
       IN /\ t.pc = "zcard"
          /\ ~overlapped[t.client_id]
          /\ t.oldest # NoTime
          /\ t.oldest <= t.current_time - Window
          /\ redis.z[t.client_id] # {}

\* C21 - Rate-limit entries always decay. Whenever no request is in flight,
\* also after a store error at any step of check_rate_limit, every
\* rate-limit key that exists has an expiry, at most a window away.
C21_EntriesDecay ==
    (\A s \in Slots : tasks[s].pc = "idle") =>
       \A k \in RLKeys :
          redis.z[k] # {} =>
             /\ redis.exp[k] # NoExpiry
             /\ redis.exp[k] - now <= Window

\* The address the client key is derived from, as the claim puts it: the
\* part of the X-Forwarded-For value before its first comma, without the
\* spaces around it, when the header is present and not empty; the peer
\* address otherwise.
FirstEntry(v) ==
    LET commas == { i \in 1..Len(v) : v[i] = "," }
        last == IF commas = {} THEN Len(v) ELSE Min(commas) - 1
    IN SubSeq(v, 1, last)
Trimmed(v) ==
    LET inked == { i \in 1..Len(v) : v[i] # " " }
    IN IF inked = {} THEN <<>>
       ELSE SubSeq(v, Min(inked), CHOOSE i \in inked : \A j \in inked : j <= i)
DerivedAddress(request) ==
    IF request.forwarded_for.present /\ request.forwarded_for.value # <<>>
    THEN Trimmed(FirstEntry(request.forwarded_for.value))
    ELSE request.host

\* C22 - Client key derivation. The key of a request is "rate_limit:"
\* followed by its derived address, and two requests have the same key
\* exactly when their derived addresses are equal.
C22_ClientKey ==
    /\ \A s \in Pair :
          tasks[s].pc = "identified" =>
             tasks[s].client_id = <<"rate_limit:">> \o DerivedAddress(tasks[s].request)
    /\ \A s, o \in Pair :
          (tasks[s].pc = "identified" /\ tasks[o].pc = "identified") =>
             ((tasks[s].client_id = tasks[o].client_id)
                <=> (DerivedAddress(tasks[s].request) = DerivedAddress(tasks[o].request)))

\* A request whose header has a padded first entry and a second entry
\* shares its key with a request without the header from that peer address.
C22_Witness ==
    /\ tasks[1].pc = "identified"
    /\ tasks[2].pc = "identified"
    /\ tasks[1].request.forwarded_for = Header(<<" ", "a", ",">>)
    /\ tasks[1].request.host = <<"b">>
    /\ ~tasks[2].request.forwarded_for.present
    /\ tasks[2].request.host = <<"a">>
    /\ tasks[1].client_id = tasks[2].client_id

\* C23 - Hard ceiling without concurrency. In a run of requests of one
\* client whose checks did not interleave and met no store error, and whose
\* requests all lie within one window, at most max_requests requests are
\* admitted.
C23_HardCeiling ==
    \A c \in RLKeys : batch[c].clean => batch[c].adm <= Limit

\* C24 - One marker per accepted request. The insert of every admitted
\* request raises the number of markers of its client by exactly one, also
\* when an earlier request was admitted in the same second of the store
\* clock.
C24_InsertStep ==
    \A s \in Slots :
       (tasks[s].pc = "zadd" /\ tasks'[s].pc = "expire") =>
          zcard(redis', tasks[s].client_id) = zcard(redis, tasks[s].client_id) + 1
C24_OneMarkerPerRequest == [][C24_InsertStep]_vars

\* C25 - The limiter runs before business logic. A request admitted by an
\* error-free check has gone through the five store operations, insert
\* included, before the one call of the downstream handler; its insert has
\* taken one unit of the quota (one marker more than the check counted);
\* and its response carries the rate-limit headers whatever status the
\* downstream handler answered.
C25_LimiterFirst ==
    \A s \in Slots :
       LET t == tasks[s]
           h == t.response.headers
       IN (t.pc = "done" /\ t.limited /\ t.is_allowed /\ t.err = "none") =>
             /\ t.ops = <<"time", "zremrangebyscore", "zcard", "zadd", "expire">>
             /\ t.next_calls = 1
             /\ t.inserted = t.request_count + 1
             /\ h.present
             /\ int(h.limit) = Limit
             /\ int(h.remaining) = Limit - t.request_count - 1

\* The same without the unit of quota: order and headers only.
C25_OrderAndHeaders ==
    \A s \in Slots :
       LET t == tasks[s]
           h == t.response.headers
       IN (t.pc = "done" /\ t.limited /\ t.is_allowed /\ t.err = "none") =>
             /\ t.ops = <<"time", "zremrangebyscore", "zcard", "zadd", "expire">>
             /\ t.next_calls = 1
             /\ h.present
             /\ int(h.limit) = Limit
             /\ int(h.remaining) = Limit - t.request_count - 1

\* C26 - Runtime configuration. Every limited request is decided with the
\* values settings.RATE_LIMIT_REQUESTS and settings.RATE_LIMIT_WINDOW have
\* when it is handled, and its X-RateLimit-Limit and X-RateLimit-Reset
\* headers equal those values.
C26_RuntimeConfiguration ==
    \A s \in Slots :
       LET t == tasks[s]
           h == t.response.headers
       IN (t.pc = "done" /\ t.limited) =>
             /\ int(h.limit) = settings.RATE_LIMIT_REQUESTS
             /\ int(h.reset) = settings.RATE_LIMIT_WINDOW
             /\ t.err = "none" =>
                   (t.is_allowed <=> t.request_count < settings.RATE_LIMIT_REQUESTS)

\* What get_cache_value returns for a key under which value was set: the
\* value, None being the result that a missing key gives as well.
Returns(value) ==
    IF value = PyNone THEN [some |-> FALSE, v |-> NoRow]
    ELSE [some |-> TRUE, v |-> value]

\* C27 - Encoding round trip. While a value set by set_cache has not been
\* deleted, get_cache_value of its key returns a value equal to it, whatever
\* has been set or deleted under other keys; get_cache_value of a key with no
\* value returns None. The result of every get_cache_value call is that one.
C27_RoundTrip ==
    /\ \A i \in ItemIds :
          get_cache_value(cache, item_key(i)) =
             IF served[i].some THEN Returns(served[i].v)
             ELSE [some |-> FALSE, v |-> NoRow]
    /\ itasks[1].op = "get_cache_value" =>
          [some |-> itasks[1].hit, v |-> itasks[1].result] =
             IF served[KeyId(itasks[1].key)].some
             THEN Returns(served[KeyId(itasks[1].key)].v)
             ELSE [some |-> FALSE, v |-> NoRow]

\* get_cache_value has returned the integer 0 set under its key, while
\* another key holds a row.
C27_Witness ==
    /\ itasks[1].op = "get_cache_value"
    /\ itasks[1].hit
    /\ itasks[1].result = PyInt(0)
    /\ served[KeyId(itasks[1].key)] = [some |-> TRUE, v |-> PyInt(0)]
    /\ \E j \in ItemIds :
          /\ item_key(j) # itasks[1].key
          /\ served[j].some
          /\ served[j].v \in Rows

\* C28 - Per-item cache isolation. The keys of distinct item ids are
\* distinct; every get_item, update_item and delete_item works under the key
\* "item:" followed by the decimal id of its item, and no step of it creates,
\* changes or removes the cache entry of another item.
KeysDistinct ==
    \A x, y \in 0..MaxKeyId : item_key(x) = item_key(y) => x = y
C28_Step ==
    \A s \in Slots :
       (itasks'[s] # itasks[s] /\ itasks'[s].op \in {"get", "update", "delete"}) =>
          /\ itasks'[s].key = <<"item:">> \o str(itasks'[s].item_id)
          /\ \A y \in ItemIds \ {itasks'[s].item_id} :
                CacheEntry(cache', item_key(y)) = CacheEntry(cache, item_key(y))
C28_Isolation == KeysDistinct /\ [][C28_Step]_vars

\* An update_item or delete_item of one item has invalidated its entry
\* while the entry of the other item is in the cache.
C28_Witness ==
    \E s \in Slots :
       /\ itasks[s].pc = "done"
       /\ itasks[s].op \in {"update", "delete"}
       /\ itasks[s].response.status \in {200, 204}
       /\ itasks[s].prior = NoWrite
       /\ prewrite[itasks[s].item_id].cached
       /\ \E y \in ItemIds \ {itasks[s].item_id} : cache.val[item_key(y)].present

\* C29 - Partial update frame. The commit of an update_item by the owner
\* changes the title only if the body supplies a title and the description
\* only if it supplies a description; a field the body does not supply keeps
\* its committed value, id and owner_id are kept, no other row changes, and
\* no later step of the update and no refused update changes the table.
C29_Step ==
    \A s \in Slots :
       (itasks'[s] # itasks[s] /\ itasks'[s].op = "update") =>
          LET t == itasks'[s]
              old == items.rows[t.item_id]
              new == items'.rows[t.item_id]
          IN IF itasks[s].pc = "idle" /\ t.pc = "invalidate"
             THEN /\ old.present /\ new.present
                  /\ old.row.owner_id = t.user
                  /\ new.row.id = old.row.id
                  /\ new.row.owner_id = old.row.owner_id
                  /\ new.row.title =
                        (IF t.item_in.title.some THEN t.item_in.title.v
                                                ELSE old.row.title)
                  /\ new.row.description =
                        (IF t.item_in.description.some THEN t.item_in.description
                                                      ELSE old.row.description)
                  /\ \A y \in ItemIds \ {t.item_id} : items'.rows[y] = items.rows[y]
                  /\ items'.last_id = items.last_id
             ELSE items' = items
C29_PartialUpdate == [][C29_Step]_vars

\* An update that supplies only a new title has been committed on an item
\* with a description: the title is the new one, the description is kept.
C29_Witness ==
    \E s \in Slots :
       LET t == itasks[s]
       IN /\ t.op = "update"
          /\ t.pc = "invalidate"
          /\ t.item_in.title.some
          /\ ~t.item_in.description.some
          /\ prewrite[t.item_id].some
          /\ prewrite[t.item_id].body.description.some
          /\ prewrite[t.item_id].body.title # t.item_in.title.v
          /\ items.rows[t.item_id].row.title = t.item_in.title.v
          /\ items.rows[t.item_id].row.description = prewrite[t.item_id].body.description

\* C30 - Registration uniqueness. A register call whose username was stored
\* when it was called is answered 400 "Username already registered"; one
\* whose email was stored, its username being new, is answered 400 "Email
\* already registered"; neither adds a user; and, the calls running one by
\* one or together, no two stored users share a username or an email.
C30_Step ==
    /\ Unique(users'.rows)
    /\ \A s \in Slots :
          (utasks[s].pc # "done" /\ utasks'[s].pc = "done") =>
             LET t == utasks'[s]
             IN /\ t.taken.username =>
                     /\ t.response.status = 400
                     /\ t.response.detail = "Username already registered"
                /\ (~t.taken.username /\ t.taken.email) =>
                     /\ t.response.status = 400
                     /\ t.response.detail = "Email already registered"
                /\ t.response.status = 400 => users' = users
C30_RegistrationUniqueness == Unique(users.rows) /\ [][C30_Step]_vars

\* Two register calls are in flight on a table of stored users; one has
\* been refused for its email, the other has a new username and email.
C30_Witness ==
    \E s, o \in Slots :
       /\ s # o
       /\ users.rows # {}
       /\ utasks[s].pc = "done"
       /\ ~utasks[s].taken.username
       /\ utasks[s].taken.email
       /\ utasks[s].response.detail = "Email already registered"
       /\ utasks[o].pc = "commit"

\* C31 - Bounded over-admission. Without store errors and with at most
\* MaxInFlight checks in flight, a client key never holds more than
\* max_requests + MaxInFlight - 1 markers; and a check that begins after the
\* key has reached max_requests markers, none of those markers being a window
\* old when the check counts, is rejected.
C31_MarkerBound ==
    \A c \in RLKeys : zcard(redis, c) <= Limit + MaxInFlight - 1
C31_BoundedOverAdmission ==
    /\ C31_MarkerBound
    /\ \A s \in Slots :
          LET t == tasks[s]
          IN (t.pc = "zadd" /\ t.held # NoTime) => ~(t.held > now - Window)

\* C32 - Key expiry is decision-neutral. When the store drops a client key
\* at the end of its time-to-live, every marker it drops is a window old, so
\* that the purge of any later evaluation would have removed it: the decisions
\* and remaining values are those of the limiter without the expire step.
C32_Step ==
    \A c \in RLKeys :
       (tasks' = tasks /\ redis.z[c] # {} /\ redis'.z[c] = {}) =>
          \A e \in redis.z[c] : e.score <= now - Window
C32_ExpiryNeutral == [][C32_Step]_vars

\* C33 - Full quota after idleness. A check without store error, with no
\* other check of its client in flight at any time up to its count, and
\* begun when every marker of the client was a window old (no request of
\* the client was admitted during the last window), counts 0, is admitted
\* and reports remaining = max_requests - 1, whatever happened before.
C33_FullQuotaAfterIdleness ==
    \A s \in Slots :
       LET t == tasks[s]
       IN (/\ t.limited /\ t.err = "none" /\ t.solo /\ t.rested
           /\ t.pc \in {"zadd", "reject", "expire", "call_next", "done"}) =>
             /\ t.request_count = 0
             /\ t.is_allowed
             /\ t.remaining = Limit - 1
             /\ t.pc = "done" =>
                  /\ t.response.status # 429
                  /\ t.response.headers.remaining = str(Limit - 1)

\* A client's key has reached the limit under overlapping checks; a window
\* later a check of the client, alone, has found markers, all of them a
\* window old, and has been answered.
C33_Witness ==
    \E s \in Slots :
       LET t == tasks[s]
       IN /\ t.pc = "done" /\ t.limited /\ t.err = "none" /\ t.solo /\ t.rested
          /\ t.oldest # NoTime
          /\ overlapped[t.client_id]
          /\ held[t.client_id] # NoTime
          /\ t.current_time >= held[t.client_id] + Window

\* The key the header of a request gives, and the parts of C34 that do not
\* depend on max_requests: the check of a request that carries
\* X-Forwarded-For counts the markers of the key derived from the first entry
\* of the header, whatever the peer address, admits or rejects on that count
\* alone, and leaves the marker of an admitted request under that key, so
\* that peers which send the same first entry are counted under one key.
HeaderKey(request) ==
    <<"rate_limit:">> \o Trimmed(FirstEntry(request.forwarded_for.value))
KeyDecides ==
    LET t == tasks'[1]
        r == origin'.req
    IN /\ (t.limited /\ t.pc # "idle") => t.client_id = HeaderKey(r)
       /\ (tasks[1].pc = "zcard" /\ t.pc # "zcard") =>
             /\ t.request_count = zcard(redis, HeaderKey(r))
             /\ t.is_allowed <=> (t.request_count < Limit)
             /\ origin.fresh => t.request_count = 0
       /\ (tasks[1].pc = "zadd" /\ t.pc # "zadd") =>
             \E e \in redis'.z[HeaderKey(r)] : e.score = t.current_time

\* C34 as stated - Header-controlled identity. The decision depends on the
\* derived key alone, peers that send the same first entry share one quota,
\* and a request under a first entry that no request has carried before is
\* never rejected, whatever max_requests is.
C34_StepStated ==
    LET t == tasks'[1]
    IN /\ KeyDecides
       /\ (tasks[1].pc = "zcard" /\ t.pc # "zcard" /\ origin.fresh) => t.is_allowed
       /\ (t.pc = "done" /\ origin.fresh) => t.response.status # 429
C34_Step ==
    LET t == tasks'[1]
    IN /\ KeyDecides
       /\ (tasks[1].pc = "zcard" /\ t.pc # "zcard" /\ origin.fresh /\ Limit >= 1) =>
             t.is_allowed
       /\ (t.pc = "done" /\ origin.fresh /\ Limit >= 1) => t.response.status # 429
       /\ (tasks[1].pc = "zcard" /\ t.pc # "zcard" /\ Limit <= 0) => ~t.is_allowed
       /\ (t.pc = "done" /\ t.limited /\ Limit <= 0) => t.response.status = 429
C34_WitnessZero ==
    /\ Limit = 0
    /\ tasks[1].pc = "done"
    /\ tasks[1].response.status = 429
    /\ origin.fresh

\* C35 - A store error in check_rate_limit is not rolled back. The step in
\* which a store operation raises leaves the store as the completed
\* operations made it and reports admitted with remaining = max_requests:
\* after an error at the expire step the marker just inserted is still under
\* the key, after an error at the count or insert step the markers purged
\* are still gone.
C35_Step ==
    \A s \in Slots :
       (tasks[s].err = "none" /\ tasks'[s].err # "none") =>
          LET t == tasks'[s]
              c == t.client_id
          IN /\ redis' = redis
             /\ t.is_allowed
             /\ t.remaining = Limit
             /\ (t.err = "expire" /\ tasks[s].inserted = zcard(redis, c)) =>
                   \E e \in redis'.z[c] :
                      e.member = str(t.current_time) /\ e.score = t.current_time
             /\ t.err \in {"zcard", "zadd"} =>
                   \A e \in redis'.z[c] : e.score > t.current_time - Window
C35_NoRollback == [][C35_Step]_vars

\* A request whose expire call failed has left its marker under a key
\* without expiry, and a later request of the client has counted it.
C35_Witness ==
    \E s \in Slots :
       LET t == tasks[s]
       IN /\ errors = 1
          /\ t.pc = "zadd"
          /\ t.err = "none"
          /\ t.request_count = 1
          /\ redis.z[t.client_id] # {}
          /\ redis.exp[t.client_id] = NoExpiry

\* The first part of C36 alone: the step of a cache hit leaves the store as it
\* was, values and expiries.
C36_HitStep ==
    \A s \in Slots :
       (itasks[s].pc = "idle" /\ itasks'[s].pc = "done" /\ itasks'[s].hit) =>
          cache' = cache
C36_HitReadsOnly == [][C36_HitStep]_vars

\* C36 - Bounded staleness. A cache hit writes nothing to the store and does
\* not extend the time-to-live of the entry, and the entry a get_item miss
\* creates expires at most 300 seconds after the load from the database
\* that produced its value.
C36_Step ==
    /\ C36_HitStep
    /\ \A s \in Slots :
          (itasks[s].pc = "store" /\ itasks'[s].stored_at # NoTime) =>
             /\ cache'.val[itasks[s].key].present
             /\ cache'.exp[itasks[s].key] <= itasks[s].loaded_at + ITEM_CACHE_EXPIRE
C36_BoundedStaleness == [][C36_Step]_vars

\* The entry of an item holds a row other than the committed one.
StaleEntry(i) ==
    /\ cache.val[item_key(i)].present
    /\ db_get(items, i) # Present(get_cache_value(cache, item_key(i)).v)

\* The step in which the invalidation of a committed write raises: the
\* request fails with a 500 and the invalidation is not made again, the
\* committed row (or its deletion) stays, the store is left as it was.
InvalidationFails ==
    \A s \in Slots :
       (itasks[s].pc = "invalidate" /\ itasks'[s].faults > itasks[s].faults) =>
          /\ itasks'[s].pc = "done"
          /\ itasks'[s].response.status = 500
          /\ itasks'[s].events = <<"commit", "error", "response">>
          /\ items' = items
          /\ db_get(items', itasks[s].item_id) =
                IF itasks[s].op = "update" THEN Present(itasks[s].result) ELSE Absent
          /\ cache' = cache

\* A step that removes or replaces the entry of item i by expiry, by the
\* invalidation of a write, by the store of a read.
EntryExpires(i) == now' # now /\ ~cache'.val[item_key(i)].present
EntryInvalidated(i) ==
    \E s \in Slots :
       /\ itasks[s].pc = "invalidate"
       /\ itasks[s].item_id = i
       /\ itasks'[s].faults = itasks[s].faults
       /\ ~cache'.val[item_key(i)].present
EntryRestored(i) ==
    \E s \in Slots :
       /\ itasks[s].pc = "store"
       /\ itasks[s].item_id = i
       /\ itasks'[s].stored_at # NoTime
       /\ cache'.val[item_key(i)] = set_cache(cache, item_key(i), itasks[s].result,
                                             ITEM_CACHE_EXPIRE, now).val[item_key(i)]

\* C37 as stated - Invalidation failure after commit. When the invalidation
\* of update_item or delete_item raises, the request fails, the committed
\* mutation stays, no retry is made, and an entry that holds the pre-write
\* row keeps it until its time-to-live runs out or a later write
\* invalidates it.
C37_StepStated ==
    /\ InvalidationFails
    /\ \A i \in ItemIds :
          (StaleEntry(i) /\ cache'.val[item_key(i)] # cache.val[item_key(i)]) =>
             EntryExpires(i) \/ EntryInvalidated(i)
C37_StaleUntilExpiryOrWrite == [][C37_StepStated]_vars

\* C37 - Invalidation failure after commit. When the invalidation of
\* update_item or delete_item raises, the request fails, the committed
\* mutation stays, no retry is made, and an entry that holds the pre-write
\* row keeps it until its time-to-live runs out, a later write invalidates
\* it, or a read that did not hit stores the row it loaded over it.
C37_Step ==
    /\ InvalidationFails
    /\ \A i \in ItemIds :
          (StaleEntry(i) /\ cache'.val[item_key(i)] # cache.val[item_key(i)]) =>
             EntryExpires(i) \/ EntryInvalidated(i) \/ EntryRestored(i)
C37_InvalidationFailure == [][C37_Step]_vars

\* An update_item has failed at its invalidation: the row it committed is in
\* the table and the entry still holds the row from before.
C37_Witness ==
    \E s \in Slots :
       /\ ItemDone(s, "update")
       /\ itasks[s].faults > 0
       /\ itasks[s].response.status = 500
       /\ db_get(items, itasks[s].item_id) = Present(itasks[s].result)
       /\ StaleEntry(itasks[s].item_id)
       /\ get_cache_value(cache, itasks[s].key).v = prewrite[itasks[s].item_id].body

====
